---- MODULE Spec2Model ----
(***************************************************************************)
(* A model of the stockbt core: the SMA crossover backtester               *)
(* (core/src/backtester.cpp) and the OHLCV CSV importer                    *)
(* (core/src/csv_importer.cpp).                                            *)
(*                                                                         *)
(* Numbers.  The program computes in IEEE doubles; the model computes in   *)
(* exact arithmetic.  A percentage setting (commission_pct, ...) is the    *)
(* numerator of a fraction over PctDen.  Money (cash, equity, pnl) is an   *)
(* integer count of 1/PctDen currency units, so that price * qty *         *)
(* (1 + commission_pct) is exact.  A quotient the code stores in a double  *)
(* (an average, a return, a drawdown) is a pair <<num, den>> with den > 0  *)
(* in lowest terms, compared by cross-multiplication.  Index i of the C++  *)
(* code is index i + 1 of a TLA+ sequence.                                 *)
(***************************************************************************)
EXTENDS Integers, Sequences, FiniteSets, TLC

\* ------------------------------------------------------------------ bounds

\* Longest candle series handed to run_sma_backtest.
MaxBars == 5

\* Longest candle series of a call that is repeated (specification RerunSpec).
MaxRerunBars == 4

\* Most data lines of a CSV file (specification ImportSpec).
MaxLines == 3

\* Denominator of the percentage settings (commission_pct = k / PctDen).
PctDen == 10

\* The greatest value of an int, narrowed so that a quotient of the cash and
\* the prices of the model passes it, as a large cash over a small price
\* passes 2^31 - 1.
MaxInt == 7

\* ------------------------------------------------------------- rationals

\* The value n / d (d > 0) in lowest terms, so that equal values are equal.
Abs(x) == IF x < 0 THEN 0 - x ELSE x
RECURSIVE Gcd(_, _)
Gcd(a, b) == IF b = 0 THEN a ELSE Gcd(b, a % b)
Rat(n, d) == LET g == Gcd(Abs(n), d) IN <<n \div g, d \div g>>
Zero == Rat(0, 1)
RatLt(a, b) == a[1] * b[2] < b[1] * a[2]
RatLe(a, b) == a[1] * b[2] <= b[1] * a[2]
RatEq(a, b) == a[1] * b[2] = b[1] * a[2]
RatAdd(a, b) == Rat(a[1] * b[2] + b[1] * a[2], a[2] * b[2])
RatTimes(a, k) == Rat(a[1] * k, a[2])
\* std::min(a, b): b when b < a, else a.
RatMin(a, b) == IF RatLt(b, a) THEN b ELSE a
Max(a, b) == IF a < b THEN b ELSE a
Min(a, b) == IF b < a THEN b ELSE a

\* ----------------------------------------------------------------- types

\* types.hpp Candle; the backtester reads ts, o and c only.
Candle(ts, o, h, l, c, v) == [ts |-> ts, o |-> o, h |-> h, l |-> l, c |-> c, v |-> v]

\* types.hpp Metrics, value-initialised.
ZeroMetrics ==
    [total_return_pct |-> Zero, total_pnl |-> 0, trades |-> 0,
     win_rate_pct |-> Zero, avg_trade_return_pct |-> Zero, max_drawdown_pct |-> Zero]

\* is_valid with fast_window <= slow_window accepted.
is_valid_le(p) == p.fast_window > 0 /\ p.slow_window > 0 /\ p.fast_window <= p.slow_window

\* types.hpp SmaParams::is_valid
is_valid(p) == p.fast_window > 0 /\ p.slow_window > 0 /\ p.fast_window < p.slow_window

\* The position size taken as it is given.
clamp01Off(value) == value

\* backtester.cpp clamp01, on numerators over PctDen.
clamp01(value) == IF value < 0 THEN 0 ELSE IF value > PctDen THEN PctDen ELSE value

\* ------------------------------------------------------------------ text

(***************************************************************************)
(* A text (a CSV cell) is a sequence of tokens: a maximal run of decimal   *)
(* digits is one token D(n) carrying its value, any other character or     *)
(* word is a token C(c).  Leading zeros and fractions are not represented. *)
(***************************************************************************)
D(n) == [k |-> "d", n |-> n, c |-> ""]
C(c) == [k |-> "c", n |-> 0, c |-> c]

IsSpace(tok) == tok = C(" ")

\* csv_importer.cpp trim, on a text.
RECURSIVE trim(_)
trim(text) ==
    IF text = <<>> THEN text
    ELSE IF IsSpace(text[1]) THEN trim(Tail(text))
    ELSE IF IsSpace(text[Len(text)]) THEN trim(SubSeq(text, 1, Len(text) - 1))
    ELSE text

\* A double that is not a number: every ordered comparison with it is false.
NaN == 0 - 1000000
FLt(a, b) == a # NaN /\ b # NaN /\ a < b
FLe(a, b) == a # NaN /\ b # NaN /\ a <= b

\* strtod of the C library on a text: whether a number was converted, its
\* value, and the text left after it.  It accepts an optional sign, digits,
\* and the words nan and inf (C99 7.20.1.3); inf is not among the texts here.
Strtod(t) ==
    IF t # <<>> /\ t[1].k = "d"
    THEN [conv |-> TRUE, value |-> t[1].n, rest |-> Tail(t)]
    ELSE IF Len(t) >= 2 /\ t[1] \in { C("-"), C("+") } /\ t[2].k = "d"
    THEN [conv |-> TRUE, value |-> IF t[1] = C("-") THEN 0 - t[2].n ELSE t[2].n,
          rest |-> Tail(Tail(t))]
    ELSE IF t # <<>> /\ t[1] = C("nan")
    THEN [conv |-> TRUE, value |-> NaN, rest |-> Tail(t)]
    ELSE [conv |-> FALSE, value |-> 0, rest |-> t]

\* csv_importer.cpp:81-94
parse_double_strict(text) ==
    LET t == trim(text)
        r == Strtod(t)
    IN  IF t = <<>> THEN [ok |-> FALSE, value |-> 0]
        ELSE IF ~r.conv \/ r.rest # <<>> THEN [ok |-> FALSE, value |-> 0]
        ELSE [ok |-> TRUE, value |-> r.value]

\* sscanf of the C library with a format of %d conversions, blanks and
\* literal characters: the integers assigned before the first mismatch.
\* %d and a blank skip white space; a literal must match the next token.
RECURSIVE SkipWs(_, _)
SkipWs(text, p) ==
    IF p <= Len(text) /\ IsSpace(text[p]) THEN SkipWs(text, p + 1) ELSE p

RECURSIVE ScanFrom(_, _, _, _, _)
ScanFrom(text, p, fmt, q, acc) ==
    IF q > Len(fmt) THEN acc
    ELSE IF fmt[q] = "%d"
    THEN LET p1 == SkipWs(text, p)
         IN  IF p1 <= Len(text) /\ text[p1].k = "d"
             THEN ScanFrom(text, p1 + 1, fmt, q + 1, Append(acc, text[p1].n))
             ELSE IF p1 + 1 <= Len(text) /\ text[p1] \in { C("-"), C("+") }
                     /\ text[p1 + 1].k = "d"
             THEN ScanFrom(text, p1 + 2, fmt, q + 1,
                           Append(acc, IF text[p1] = C("-") THEN 0 - text[p1 + 1].n
                                       ELSE text[p1 + 1].n))
             ELSE acc
    ELSE IF fmt[q] = " "
    THEN ScanFrom(text, SkipWs(text, p), fmt, q + 1, acc)
    ELSE IF p <= Len(text) /\ text[p] = C(fmt[q])
    THEN ScanFrom(text, p + 1, fmt, q + 1, acc)
    ELSE acc

Sscanf(text, fmt) == ScanFrom(text, 1, fmt, 1, <<>>)

\* The formats of time_utils.cpp:17, :19 and :42.
FmtIsoSpace == << "%d", "-", "%d", "-", "%d", " ", "%d", ":", "%d", ":", "%d" >>
FmtIsoT == << "%d", "-", "%d", "-", "%d", "T", "%d", ":", "%d", ":", "%d" >>
FmtSlash == << "%d", "/", "%d", "/", "%d", " ", "%d", ":", "%d", ":", "%d" >>

\* struct tm with the fields the parsers set.
Tm(year, mon, mday, hour, min, sec) ==
    [tm_year |-> year, tm_mon |-> mon, tm_mday |-> mday,
     tm_hour |-> hour, tm_min |-> min, tm_sec |-> sec]

NoTm == [ok |-> FALSE, tm |-> Tm(0, 0, 0, 0, 0, 0)]

\* time_utils.cpp:25-31 and :50-56: the tm of a scan of at least three fields.
TmOfScan(got, year, month, day) ==
    LET full == Len(got) >= 6
    IN  [ok |-> TRUE,
         tm |-> Tm(year - 1900, month - 1, day,
                   IF full THEN got[4] ELSE 0,
                   IF full THEN got[5] ELSE 0,
                   IF full THEN got[6] ELSE 0)]

\* time_utils.cpp:9-32
parse_iso(text) ==
    LET first_try == Sscanf(text, FmtIsoSpace)
        got == IF Len(first_try) < 3 THEN Sscanf(text, FmtIsoT) ELSE first_try
    IN  IF Len(got) < 3 THEN NoTm ELSE TmOfScan(got, got[1], got[2], got[3])

\* time_utils.cpp:34-57
parse_slash(text, month_first) ==
    LET got == Sscanf(text, FmtSlash)
    IN  IF Len(got) < 3 THEN NoTm
        ELSE TmOfScan(got, got[3],
                      IF month_first THEN got[1] ELSE got[2],
                      IF month_first THEN got[2] ELSE got[1])

\* time_utils.cpp:59-63
is_tm_in_range(tm) ==
    /\ tm.tm_mon >= 0 /\ tm.tm_mon <= 11
    /\ tm.tm_mday >= 1 /\ tm.tm_mday <= 31
    /\ tm.tm_hour >= 0 /\ tm.tm_hour <= 23
    /\ tm.tm_min >= 0 /\ tm.tm_min <= 59
    /\ tm.tm_sec >= 0 /\ tm.tm_sec <= 60

\* timegm of the C library: days since 1970-01-01 of a proleptic Gregorian
\* date (a day past the end of its month runs into the next), in seconds.
DaysFromCivil(year, month, day) ==
    LET y == IF month <= 2 THEN year - 1 ELSE year
        era == y \div 400
        yoe == y - era * 400
        mp == ((month + 9) % 12)
        doy == (153 * mp + 2) \div 5 + day - 1
        doe == yoe * 365 + yoe \div 4 - yoe \div 100 + doy
    IN  era * 146097 + doe - 719468

timegm(tm) ==
    DaysFromCivil(tm.tm_year + 1900, tm.tm_mon + 1, tm.tm_mday) * 86400
        + tm.tm_hour * 3600 + tm.tm_min * 60 + tm.tm_sec

NoTime == [ok |-> FALSE, ts |-> 0]

\* time_utils.cpp:65-80
tm_to_epoch_utc(tm) ==
    IF ~is_tm_in_range(tm) THEN NoTime
    ELSE IF timegm(tm) = 0 - 1 THEN NoTime
    ELSE [ok |-> TRUE, ts |-> timegm(tm)]

\* time_utils.cpp:84-102
parse_timestamp_utc(text, fmt) ==
    LET r == CASE fmt = "Iso" -> parse_iso(text)
               [] fmt = "Mdy" -> parse_slash(text, TRUE)
               [] fmt = "Dmy" -> parse_slash(text, FALSE)
    IN  IF ~r.ok THEN NoTime ELSE tm_to_epoch_utc(r.tm)

\* time_utils.hpp:12 declares parse_date_time_utc_yyyymmdd_hhmmss; its body
\* is not among the sources.  Modelled from the specification: the date is
\* YYYYMMDD digits, the time HHMMSS digits, the fields are range-checked and
\* combined into one instant.
parse_date_time_utc_yyyymmdd_hhmmss(date_text, time_text) ==
    LET dt == trim(date_text)
        tm == trim(time_text)
    IN  IF Len(dt) # 1 \/ Len(tm) # 1 THEN NoTime
        ELSE IF dt[1].k # "d" \/ tm[1].k # "d" THEN NoTime
        ELSE tm_to_epoch_utc(Tm(dt[1].n \div 10000 - 1900,
                                ((dt[1].n \div 100) % 100) - 1,
                                dt[1].n % 100,
                                tm[1].n \div 10000,
                                (tm[1].n \div 100) % 100,
                                tm[1].n % 100))

\* -------------------------------------------------------------- importer

\* types.hpp ImportResult, value-initialised.
EmptyImportResult ==
    [success |-> FALSE, partial_success |-> FALSE, dropped_rows |-> 0,
     candles |-> <<>>, warnings |-> <<>>, errors |-> <<>>]

\* types.hpp ImportIssue
Issue(line, message) == [line |-> line, message |-> message]

\* The issue texts of csv_importer.cpp.
MsgUnableToOpen(csv_path) == "Unable to open CSV file: " \o csv_path
MsgEmpty == "CSV is empty"
MsgMissingColumns ==
    "Missing required columns. Required: Date/Timestamp OR DTYYYYMMDD+TIME, Open, High, Low, Close, Volume/VOL"
MsgMissingFields == "Dropped row: missing one or more required field values"
MsgBadTimestamp == "Dropped row: invalid timestamp format"
MsgBadNumber == "Dropped row: invalid numeric value"
MsgBadPrice == "Dropped row: prices must be > 0"
MsgBadVolume == "Dropped row: volume must be >= 0"
MsgZeroRows == "Import failed: zero valid rows remain after filtering"
MsgUnsorted == "Timestamps were unsorted. Data was sorted ascending."
MsgDuplicates(count) ==
    "Duplicate timestamps detected. Kept last occurrence for " \o ToString(count) \o " row(s)."

\* csv_importer.cpp:35-41 on the header cells of the files considered: the
\* cell trimmed, one pair of enclosing angle brackets stripped, lower-cased.
normalize_header(cell) ==
    CASE cell \in { "Date", "date", " Date " } -> "date"
      [] cell \in { "Timestamp" } -> "timestamp"
      [] cell \in { "<DTYYYYMMDD>" } -> "dtyyyymmdd"
      [] cell \in { "<TIME>", "Time" } -> "time"
      [] cell \in { "Open", "<OPEN>" } -> "open"
      [] cell \in { "High", "<HIGH>" } -> "high"
      [] cell \in { "Low", "<LOW>" } -> "low"
      [] cell \in { "Close", "<CLOSE>", "CLOSE" } -> "close"
      [] cell \in { "Volume", "volume" } -> "volume"
      [] cell \in { "<VOL>", "Vol" } -> "vol"
      [] cell \in { "<TICKER>" } -> "ticker"
      [] OTHER -> cell

\* csv_importer.cpp:43; an index no line has.
kMissing == 0 - 1

\* csv_importer.cpp:118-121: the index each normalised name maps to, the
\* last cell of that name winning; indices count from 1 here.
HeaderIndexOf(headers_raw, name) ==
    LET at == { k \in 1..Len(headers_raw) : normalize_header(headers_raw[k]) = name }
    IN  IF at = {} THEN kMissing ELSE CHOOSE k \in at : \A j \in at : j <= k

\* csv_importer.cpp:45-54
RECURSIVE find_header_any(_, _)
find_header_any(headers_raw, names) ==
    IF names = <<>> THEN kMissing
    ELSE IF HeaderIndexOf(headers_raw, names[1]) # kMissing
    THEN HeaderIndexOf(headers_raw, names[1])
    ELSE find_header_any(headers_raw, Tail(names))

\* csv_importer.cpp:123-130
ResolveColumns(h) ==
    [timestamp_col |-> find_header_any(h, << "timestamp", "date" >>),
     dt_col |-> find_header_any(h, << "dtyyyymmdd" >>),
     tm_col |-> find_header_any(h, << "time" >>),
     o_col |-> find_header_any(h, << "open" >>),
     h_col |-> find_header_any(h, << "high" >>),
     l_col |-> find_header_any(h, << "low" >>),
     c_col |-> find_header_any(h, << "close" >>),
     v_col |-> find_header_any(h, << "volume", "vol" >>)]

NoCols == ResolveColumns(<<>>)

\* csv_importer.cpp:132-133
has_single_timestamp(cl) == cl.timestamp_col # kMissing
has_split_datetime(cl) == cl.dt_col # kMissing /\ cl.tm_col # kMissing

\* csv_importer.cpp:134-135
MissingRequired(cl) ==
    \/ ~has_single_timestamp(cl) /\ ~has_split_datetime(cl)
    \/ cl.o_col = kMissing \/ cl.h_col = kMissing \/ cl.l_col = kMissing
    \/ cl.c_col = kMissing \/ cl.v_col = kMissing

SetMax(S) == CHOOSE m \in S : \A x \in S : x <= m

\* csv_importer.cpp:155-158, counting from 1.
max_index(cl) ==
    LET ts_req_col == IF has_single_timestamp(cl) THEN cl.timestamp_col ELSE cl.dt_col
    IN  IF has_split_datetime(cl)
        THEN SetMax({ cl.dt_col, cl.tm_col, cl.o_col, cl.h_col, cl.l_col, cl.c_col, cl.v_col })
        ELSE SetMax({ ts_req_col, cl.o_col, cl.h_col, cl.l_col, cl.c_col, cl.v_col })

\* csv_importer.cpp:165-170
RowTimestamp(cl, fields, fmt) ==
    IF has_split_datetime(cl)
    THEN parse_date_time_utc_yyyymmdd_hhmmss(fields[cl.dt_col], fields[cl.tm_col])
    ELSE parse_timestamp_utc(fields[cl.timestamp_col], fmt)

\* csv_importer.cpp:190: a price the row is dropped for.
BadPrice(o, h, l, c) == FLe(o, 0) \/ FLe(h, 0) \/ FLe(l, 0) \/ FLe(c, 0)

\* csv_importer.cpp:195: a volume the row is dropped for.
BadVolume(v) == FLt(v, 0)

\* The volume checked before the prices.
RowOutcomeVolumeFirst(cl, fields, fmt) ==
    LET ts == RowTimestamp(cl, fields, fmt)
        o == parse_double_strict(fields[cl.o_col])
        h == parse_double_strict(fields[cl.h_col])
        l == parse_double_strict(fields[cl.l_col])
        c == parse_double_strict(fields[cl.c_col])
        v == parse_double_strict(fields[cl.v_col])
    IN  IF Len(fields) < max_index(cl) THEN [drop |-> TRUE, why |-> MsgMissingFields]
        ELSE IF ~ts.ok THEN [drop |-> TRUE, why |-> MsgBadTimestamp]
        ELSE IF ~o.ok \/ ~h.ok \/ ~l.ok \/ ~c.ok \/ ~v.ok
        THEN [drop |-> TRUE, why |-> MsgBadNumber]
        ELSE IF BadVolume(v.value) THEN [drop |-> TRUE, why |-> MsgBadVolume]
        ELSE IF BadPrice(o.value, h.value, l.value, c.value)
        THEN [drop |-> TRUE, why |-> MsgBadPrice]
        ELSE [drop |-> FALSE,
              candle |-> Candle(ts.ts, o.value, h.value, l.value, c.value, v.value)]

\* csv_importer.cpp:154-201: what one non-blank line yields, the message of
\* its drop or its candle.
RowOutcome(cl, fields, fmt) ==
    LET ts == RowTimestamp(cl, fields, fmt)
        o == parse_double_strict(fields[cl.o_col])
        h == parse_double_strict(fields[cl.h_col])
        l == parse_double_strict(fields[cl.l_col])
        c == parse_double_strict(fields[cl.c_col])
        v == parse_double_strict(fields[cl.v_col])
    IN  IF Len(fields) < max_index(cl) THEN [drop |-> TRUE, why |-> MsgMissingFields]
        ELSE IF ~ts.ok THEN [drop |-> TRUE, why |-> MsgBadTimestamp]
        ELSE IF ~o.ok \/ ~h.ok \/ ~l.ok \/ ~c.ok \/ ~v.ok
        THEN [drop |-> TRUE, why |-> MsgBadNumber]
        ELSE IF BadPrice(o.value, h.value, l.value, c.value)
        THEN [drop |-> TRUE, why |-> MsgBadPrice]
        ELSE IF BadVolume(v.value) THEN [drop |-> TRUE, why |-> MsgBadVolume]
        ELSE [drop |-> FALSE,
              candle |-> Candle(ts.ts, o.value, h.value, l.value, c.value, v.value)]

\* A row equal in time to the row before it counted as out of order.
UnorderedOrEqual(rows) == \E k \in 2..Len(rows) : rows[k].ts <= rows[k - 1].ts

\* csv_importer.cpp:210-216
Unordered(rows) == \E k \in 2..Len(rows) : rows[k].ts < rows[k - 1].ts

\* A sort that puts a row before the rows of its own timestamp.
RECURSIVE InsertByTsUnstable(_, _)
InsertByTsUnstable(sorted, row) ==
    IF sorted = <<>> THEN << row >>
    ELSE IF row.ts <= sorted[Len(sorted)].ts
    THEN Append(InsertByTsUnstable(SubSeq(sorted, 1, Len(sorted) - 1), row),
                sorted[Len(sorted)])
    ELSE Append(sorted, row)

\* csv_importer.cpp:222: std::stable_sort by ts, as an insertion sort that
\* puts a row after the rows that are not later than it.
RECURSIVE InsertByTs(_, _)
InsertByTs(sorted, row) ==
    IF sorted = <<>> THEN << row >>
    ELSE IF row.ts < sorted[Len(sorted)].ts
    THEN Append(InsertByTs(SubSeq(sorted, 1, Len(sorted) - 1), row), sorted[Len(sorted)])
    ELSE Append(sorted, row)

RECURSIVE StableSortByTs(_)
StableSortByTs(rows) ==
    IF rows = <<>> THEN <<>>
    ELSE InsertByTs(StableSortByTs(SubSeq(rows, 1, Len(rows) - 1)), rows[Len(rows)])

\* csv_importer.cpp:224-234: the rows with each run of equal ts collapsed to
\* its last row.
DedupeKeepAll(rows) == rows

RECURSIVE Dedupe(_)
Dedupe(rows) ==
    IF rows = <<>> THEN <<>>
    ELSE LET before == Dedupe(SubSeq(rows, 1, Len(rows) - 1))
             c == rows[Len(rows)]
         IN  IF before # <<>> /\ before[Len(before)].ts = c.ts
             THEN [before EXCEPT ![Len(before)] = c]
             ELSE Append(before, c)

\* The timestamps that repeat, each counted once.
RECURSIVE DuplicateCountRuns(_)
DuplicateCountRuns(rows) ==
    IF Len(rows) < 2 THEN 0
    ELSE DuplicateCountRuns(SubSeq(rows, 1, Len(rows) - 1))
         + (IF /\ rows[Len(rows)].ts = rows[Len(rows) - 1].ts
               /\ (Len(rows) = 2 \/ rows[Len(rows) - 2].ts # rows[Len(rows) - 1].ts)
            THEN 1 ELSE 0)

\* csv_importer.cpp:226-231: duplicate_count after the loop over the rows.
RECURSIVE DuplicateCount(_)
DuplicateCount(rows) ==
    IF rows = <<>> THEN 0
    ELSE LET before == Dedupe(SubSeq(rows, 1, Len(rows) - 1))
             c == rows[Len(rows)]
         IN  DuplicateCount(SubSeq(rows, 1, Len(rows) - 1))
             + (IF before # <<>> /\ before[Len(before)].ts = c.ts THEN 1 ELSE 0)

\* -------------------------------------------------------- importer inputs

CsvPath == "data.csv"

HeaderSingle == << "Date", "Open", "High", "Low", "Close", "Volume" >>
HeaderSplit ==
    << "<TICKER>", "<DTYYYYMMDD>", "<TIME>", "<OPEN>", "<HIGH>", "<LOW>", "<CLOSE>", "<VOL>" >>
HeaderNoClose == << "Date", "Open", "High", "Low", "Volume" >>

Num(n) == IF n < 0 THEN << C("-"), D(0 - n) >> ELSE << D(n) >>
IsoDate(y, m, d) == << D(y), C("-"), D(m), C("-"), D(d) >>

\* The content of one data line: the text of each kind of cell, and how many
\* cells are missing at its end.
Row(ts, dt, tm, o, h, l, c, v, cut) ==
    [blank |-> FALSE, ts |-> ts, dt |-> dt, tm |-> tm,
     o |-> o, h |-> h, l |-> l, c |-> c, v |-> v, cut |-> cut]

\* A line of 2024-01-<day> with numeric cells.
DayRow(day, o, h, l, c, v) ==
    Row(IsoDate(2024, 1, day), << D(20240100 + day) >>, << D(0) >>,
        Num(o), Num(h), Num(l), Num(c), Num(v), 0)

\* A line of 2024-01-<day> at <hour>:00:00, the time after the separator sep
\* in a date column, as HHMMSS in the split columns.
TimedRow(day, hour, sep) ==
    [DayRow(day, 2, 3, 1, 2, 5) EXCEPT
        !.ts = IsoDate(2024, 1, day) \o << C(sep), D(hour), C(":"), D(0), C(":"), D(0) >>,
        !.tm = << D(hour * 10000) >>]

BlankRow == [DayRow(1, 2, 3, 1, 2, 5) EXCEPT !.blank = TRUE]

\* Lines the importer keeps: three days, one of them with volume 0, a second
\* line for day 1 with another close, and two lines of day 1 with a time.
GoodRows ==
    { DayRow(1, 2, 3, 1, 2, 5), DayRow(2, 2, 3, 1, 2, 0), DayRow(3, 2, 3, 1, 2, 5),
      DayRow(1, 2, 3, 1, 3, 5), TimedRow(1, 10, "T"), TimedRow(1, 11, "T") }

\* Lines with defects: blank; the last cell missing from a line whose
\* timestamp is no date either; a day out of range; a timestamp that is no
\* date before an open that is no number; a close that is a number followed
\* by a letter after an open of zero; a price of
\* zero; a negative price before a negative volume; a negative volume; a
\* close that reads nan.
DefectRows ==
    { BlankRow,
      [DayRow(1, 2, 3, 1, 2, 5) EXCEPT !.cut = 1,
                                       !.ts = << C("n/a") >>, !.dt = << C("n/a") >>],
      DayRow(32, 2, 3, 1, 2, 5),
      [DayRow(1, 2, 3, 1, 2, 5) EXCEPT !.ts = << C("n/a") >>, !.dt = << C("n/a") >>,
                                       !.o = << C("abc") >>],
      [DayRow(1, 0, 3, 1, 2, 5) EXCEPT !.c = << D(2), C("x") >>],
      DayRow(1, 0, 3, 1, 2, 5),
      DayRow(1, 2, 3, 0 - 1, 2, 0 - 1),
      DayRow(1, 2, 3, 1, 2, 0 - 1),
      [DayRow(3, 2, 3, 1, 2, 5) EXCEPT !.c = << C("nan") >>] }

RowSet == GoodRows \cup DefectRows

\* The cell a row has in the column of a normalised name.
CellOf(name, row) ==
    CASE name \in { "date", "timestamp" } -> row.ts
      [] name = "dtyyyymmdd" -> row.dt
      [] name = "time" -> row.tm
      [] name = "open" -> row.o
      [] name = "high" -> row.h
      [] name = "low" -> row.l
      [] name = "close" -> row.c
      [] name \in { "volume", "vol" } -> row.v
      [] OTHER -> << C("USDCAD") >>

\* The cells of the line a row makes under a header.
LineOf(header, row) ==
    IF row.blank THEN <<>>
    ELSE [k \in 1..(Len(header) - row.cut) |-> CellOf(normalize_header(header[k]), row)]

HeaderNoTime ==
    << "<TICKER>", "<DTYYYYMMDD>", "<OPEN>", "<HIGH>", "<LOW>", "<CLOSE>", "<VOL>" >>

HeaderSet == { HeaderSingle, HeaderSplit, HeaderNoClose, HeaderNoTime }

\* The number of data lines tried under a header: no data line is read
\* under a header that lacks a required column, so one is tried there.
MaxLinesUnder(h) == IF MissingRequired(ResolveColumns(h)) THEN 1 ELSE MaxLines

\* The lines of the file with a header and a sequence of rows.
LinesOf(header, rows) == [k \in 1..Len(rows) |-> LineOf(header, rows[k])]

\* -------------------------------------------------------- backtest inputs

\* Timestamp of the k-th bar (k = 1..n) of a generated series: strictly
\* ascending and unique, as the importer delivers them.
TsOf(k) == 1000 + 60 * k

OpenPrices == {1, 2}
ClosePrices == {1, 3}

BarSet(k) ==
    { Candle(TsOf(k), o, Max(o, c), Min(o, c), c, 0) : o \in OpenPrices, c \in ClosePrices }

RECURSIVE SeriesOfLen(_)
SeriesOfLen(n) ==
    IF n = 0 THEN { <<>> }
    ELSE { Append(s, b) : s \in SeriesOfLen(n - 1), b \in BarSet(n) }

SeriesSet == UNION { SeriesOfLen(n) : n \in 0..MaxBars }

\* Valid windows (1,2), (1,3), (2,3); a zero window; fast = slow.
ParamsSet ==
    { [fast_window |-> 1, slow_window |-> 2],
      [fast_window |-> 1, slow_window |-> 3],
      [fast_window |-> 2, slow_window |-> 3],
      [fast_window |-> 2, slow_window |-> 2],
      [fast_window |-> 0, slow_window |-> 2] }

Settings(cash0, comm, psp, sl, tp) ==
    [starting_cash |-> cash0, commission_pct |-> comm, position_size_pct |-> psp,
     stop_loss_pct |-> sl, take_profit_pct |-> tp]

\* starting_cash in currency units; the other settings are numerators over
\* PctDen.  In order: commission and full size; no commission, size above 1
\* (clamped) and a take-profit; half size and a stop-loss; a cash too small
\* for a price of 2, with both risk exits; no risk exits and no commission;
\* a negative size (clamped to 0); a cash that buys more than MaxInt at a
\* price of 1.
SettingsSet ==
    { Settings(6, 1, PctDen, 0, 0),
      Settings(MaxInt + 2, 0, PctDen, 0, 0),
      Settings(6, 0, PctDen + 2, 0, 5),
      Settings(6, 1, 5, 2, 0),
      Settings(2, 1, PctDen, 2, 5),
      Settings(6, 0, PctDen, 0, 0),
      Settings(6, 1, 0 - 1, 0, 0) }

\* ----------------------------------------------------------------- state

VARIABLES
    candles,          \* const Series& candles
    params,           \* const SmaParams& params
    settings,         \* const BacktestSettings& settings
    pc,               \* position in run_sma_backtest: "start", "loop", "done"
    i,                \* loop index of the bar loop
    cash, qty,
    open_entry_time, open_entry_price,
    pending,          \* PendingAction: "None", "Buy", "Sell"
    fast_sum, slow_sum, prev_fast, prev_slow, prev_valid,
    equity, drawdown, trades, metrics, warnings,   \* BacktestResult result
    sig_bar,          \* history: index of the bar on which pending was set
    entry_sig,        \* history: sig_bar of the buy that opened the position
    trade_sigs,       \* history: per trade, the bars of its buy and sell signals
    int_cast,         \* what this build's static_cast<int> makes of a double
                      \* above MaxInt: "min" or "max"
    calls,            \* history: number of calls of run_sma_backtest that returned
    first,            \* history: the arguments and the result of the first call
    csv_open,         \* whether the file at csv_path can be opened
    csv_header,       \* the cells of the file's first line; <<>> for an empty file
    csv_rows,         \* the file's other lines, each split into its cells; <<>> is
                      \* a blank line
    date_format,      \* DateFormat date_format
    ipc,              \* position in import_ohlcv_csv: "open", "rows", "done"
    cols,             \* the column indices resolved from the header
    line_number,
    row_issues, valid_rows,
    imp,              \* ImportResult result
    points,           \* const std::vector<SeriesPoint>& points
    pixel_width,      \* std::size_t pixel_width
    display_cap,      \* std::size_t display_cap
    dpc,              \* position in downsample_bucket_min_max: "call", "done"
    ds_out,           \* the std::vector<BucketMinMax> returned
    dp_out,           \* the std::vector<QPointF> display_points returned
    ts_text,          \* const std::string& text of parse_timestamp_utc
    ts_fmt,           \* DateFormat fmt of parse_timestamp_utc
    tpc,              \* position in parse_timestamp_utc: "call", "done"
    ts_out,           \* the std::optional<int64_t> returned
    rt_dir,           \* round trip: "epoch" formats and parses back, "text"
                      \* parses and formats back
    rt_in,            \* the epoch second, or the characters of the date text
    rt_mid,           \* what the first conversion returned
    rt_out,           \* what the second conversion returned
    rpc,              \* position in the round trip: "first", "second", "done"
    candles_,         \* MainWindow::candles_, as its number of candles
    last_backtest_,   \* MainWindow::last_backtest_, as the size of its equity
    run_enabled,      \* run_action_->isEnabled()
    export_enabled,   \* export_action_->isEnabled()
    import_tasks,     \* the import computations running in the thread pool
    backtest_tasks,   \* the backtest computations running in the thread pool
    import_watched,   \* the task import_watcher_ holds the future of; 0 if none
    backtest_watched, \* the task backtest_watcher_ holds the future of
    started,          \* the number of tasks handed to QtConcurrent::run
    dataset_id,       \* the import whose candles candles_ holds, 0 for none
    result_of,        \* the import whose candles last_backtest_ was computed
                      \* from, 0 for none
    exported          \* what on_export_results last wrote, <<>> for nothing

btVars == <<candles, params, settings, pc, i, cash, qty, open_entry_time,
            open_entry_price, pending, fast_sum, slow_sum, prev_fast, prev_slow,
            prev_valid, equity, drawdown, trades, metrics, warnings,
            sig_bar, entry_sig, trade_sigs, int_cast>>

rrVars == <<calls, first>>

impVars == <<csv_open, csv_header, csv_rows, date_format, ipc, cols, line_number,
             row_issues, valid_rows, imp>>

dsVars == <<points, pixel_width, display_cap, dpc, ds_out, dp_out>>

tpVars == <<ts_text, ts_fmt, tpc, ts_out>>

rtVars == <<rt_dir, rt_in, rt_mid, rt_out, rpc>>

guiVars == <<candles_, last_backtest_, run_enabled, export_enabled, import_tasks,
             backtest_tasks, import_watched, backtest_watched, started,
             dataset_id, result_of, exported>>

vars == <<btVars, rrVars, impVars, dsVars, tpVars, rtVars, guiVars>>

\* The variables that are not run_sma_backtest's.
notBt == <<rrVars, impVars, dsVars, tpVars, rtVars, guiVars>>

\* trade_sigs marks the sell signal of a forced close with this value.
Forced == 0 - 1

\* --------------------------------------------------------------- helpers

\* The warning texts of backtester.cpp.
WarnEmpty == "Backtest skipped: empty dataset."
WarnInvalid == "Backtest skipped: invalid SMA parameters (require fast < slow and > 0)."
WarnShort == "Dataset length is below slow_window. No signals/trades generated."
WarnLastBar == "Last bar signal discarded (no next bar for execution)."
WarnStop == "Stop-loss triggered; exit scheduled on next bar open."
WarnStopLast == "Stop-loss triggered on last bar; exiting at final close."
WarnTake == "Take-profit triggered; exit scheduled on next bar open."
WarnTakeLast == "Take-profit triggered on last bar; exiting at final close."
WarnForced == "Open position force-closed at last bar close."

\* The length test off by one.
BelowSlowWindowOffByOne(n, sw) == n + 1 < sw

\* backtester.cpp:46
BelowSlowWindow(n, sw) == n < sw

\* The forced close priced at the final open.
ForcedExitAtOpen(last) == last.o

\* backtester.cpp:173: the price of the forced close.
ForcedExitPrice(last) == last.c

\* push_back in place of back() = .
OverwriteLastPush(eq, c) == Append(eq, c)

\* backtester.cpp:191: result.equity.back() = cash.
OverwriteLast(eq, c) == [eq EXCEPT ![Len(eq)] = c]

\* Money is an integer count of 1/PctDen units.
Money(x) == x * PctDen

\* A fill at the bar's close.
FillAtClose(bar) == bar.c

\* backtester.cpp:71 and :86, the price a pending action fills at.
FillPrice(bar) == bar.o

\* backtester.cpp:80 and :94, the time a pending action fills at.
FillTime(bar) == bar.ts

\* backtester.cpp:74: static_cast<int> of a double that is a whole number.
\* Above the greatest int the conversion is undefined: the build yields the
\* least int (the x86 conversion instructions) or the greatest (the
\* saturating ones).
static_cast_int(x) ==
    IF x <= MaxInt THEN x
    ELSE IF int_cast = "max" THEN MaxInt ELSE 0 - MaxInt - 1

\* backtester.cpp:72-74: floor(budget / denom), or 0 when denom <= 0.
\* cash is Money; budget / denom =
\*   (cash/PctDen * psp/PctDen) / (o * (PctDen + commission)/PctDen).
BuyQty(c, o) ==
    LET psp == clamp01(settings.position_size_pct)
        denom == o * (PctDen + settings.commission_pct)
    IN  IF denom > 0 THEN static_cast_int((c * psp) \div (PctDen * denom)) ELSE 0

\* backtester.cpp:76-78: cost + commission of buying q at price o, as Money.
BuyCost(q, o) == q * o * PctDen + q * o * settings.commission_pct

\* The proceeds of a sale with no exit commission taken.
SellGross(q, o) == q * o * PctDen

\* backtester.cpp:87-89 and :174-176: proceeds - commission of selling q at
\* price o, as Money.
SellNet(q, o) == q * o * PctDen - q * o * settings.commission_pct

\* backtester.cpp:91-100 and :178-187: the Trade a sell records.
MakeTrade(entry_time, entry_price, exit_time, exit_price, q) ==
    [entry_time |-> entry_time, entry_price |-> entry_price,
     exit_time |-> exit_time, exit_price |-> exit_price, qty |-> q,
     pnl |-> (exit_price - entry_price) * q * PctDen
             - entry_price * q * settings.commission_pct
             - exit_price * q * settings.commission_pct,
     return_pct |-> IF entry_price > 0
                    THEN Rat(exit_price - entry_price, entry_price) ELSE Zero]

\* A crossing that needs the fast average strictly below before.
CrossUpStrict(pf, ps, fast, slow) == RatLt(pf, ps) /\ RatLt(slow, fast)

\* backtester.cpp:126-127
CrossUp(pf, ps, fast, slow) == RatLe(pf, ps) /\ RatLt(slow, fast)
CrossDown(pf, ps, fast, slow) == RatLe(ps, pf) /\ RatLt(fast, slow)

\* Every bar taken to have a next one.
HasNextAlways(k, n) == TRUE

\* backtester.cpp:129, :135, :152 and :159: bar k is not the final bar.
HasNext(k, n) == k + 1 < n

\* A window that lets its oldest close go one bar late.
WindowSumLate(sum, k, w) ==
    sum + candles[k + 1].c - (IF k > w THEN candles[k - w + 1].c ELSE 0)

\* backtester.cpp:109-116: a sliding sum after bar k, for a window of w bars.
WindowSum(sum, k, w) ==
    sum + candles[k + 1].c - (IF k >= w THEN candles[k - w + 1].c ELSE 0)

\* A take-profit that needs the return strictly above the threshold.
TakeProfitHitStrict(bar_return) ==
    /\ settings.take_profit_pct > 0
    /\ RatLt(Rat(settings.take_profit_pct, PctDen), bar_return)

\* backtester.cpp:151: stop_loss_enabled && bar_return <= -stop_loss_pct.
StopLossHit(bar_return) ==
    /\ settings.stop_loss_pct > 0
    /\ RatLe(bar_return, Rat(0 - settings.stop_loss_pct, PctDen))

\* backtester.cpp:158: take_profit_enabled && bar_return >= take_profit_pct.
TakeProfitHit(bar_return) ==
    /\ settings.take_profit_pct > 0
    /\ RatLe(Rat(settings.take_profit_pct, PctDen), bar_return)

\* An equity sample that leaves the position out.
MarkToMarketCashOnly(c, q, close) == c

\* backtester.cpp:168: cash + qty * bar.c, as Money.
MarkToMarket(c, q, close) == c + Money(q * close)

\* backtester.cpp:150: unrealised return of the open position at close c.
BarReturn(c, entry_price) ==
    IF entry_price > 0 THEN Rat(c - entry_price, entry_price) ELSE Zero

\* A peak that is never raised after the first sample.
PeakStuck(eq, k) == eq[1]

\* backtester.cpp:195-202: the running peak of eq[1..k]; max(-inf, x) = x.
RECURSIVE PeakAt(_, _)
PeakAt(eq, k) == IF k = 1 THEN eq[1] ELSE Max(PeakAt(eq, k - 1), eq[k])

\* backtester.cpp:199: one drawdown sample.
DrawdownAt(eq, k) ==
    LET peak == PeakAt(eq, k)
    IN  IF peak > 0 THEN Rat(eq[k] - peak, peak) ELSE Zero

\* backtester.cpp:196-201: min_dd after the first k samples.
RECURSIVE MinDd(_, _)
MinDd(dd, k) == IF k = 0 THEN Zero ELSE RatMin(MinDd(dd, k - 1), dd[k])

\* backtester.cpp:211-218
RECURSIVE Wins(_, _)
Wins(ts, k) == IF k = 0 THEN 0 ELSE Wins(ts, k - 1) + (IF ts[k].pnl > 0 THEN 1 ELSE 0)
RECURSIVE SumReturns(_, _)
SumReturns(ts, k) ==
    IF k = 0 THEN Zero ELSE RatAdd(SumReturns(ts, k - 1), ts[k].return_pct)

\* max_drawdown_pct left as a fraction.
MaxDrawdownFraction(min_dd) == min_dd

\* backtester.cpp:225
MaxDrawdownPct(min_dd) == RatTimes(min_dd, 100)

\* backtester.cpp:204-225
ComputeMetrics(eq, ts, min_dd) ==
    LET final_equity == IF Len(eq) = 0 THEN Money(settings.starting_cash) ELSE eq[Len(eq)]
        total_pnl == final_equity - Money(settings.starting_cash)
        cnt == Len(ts)
        sum_returns == SumReturns(ts, cnt)
    IN  [total_pnl |-> total_pnl,
         total_return_pct |-> IF settings.starting_cash # 0
                              THEN Rat(total_pnl * 100, Money(settings.starting_cash))
                              ELSE Zero,
         trades |-> cnt,
         win_rate_pct |-> IF cnt = 0 THEN Zero ELSE Rat(Wins(ts, cnt) * 100, cnt),
         avg_trade_return_pct |-> IF cnt = 0 THEN Zero
                                  ELSE Rat(sum_returns[1] * 100, sum_returns[2] * cnt),
         max_drawdown_pct |-> MaxDrawdownPct(min_dd)]

\* ------------------------------------------------------------------ Init

BtInit ==
    /\ candles \in SeriesSet
    /\ params \in ParamsSet
    /\ settings \in SettingsSet
    /\ pc = "start"
    /\ i = 0
    /\ cash = 0 /\ qty = 0
    /\ open_entry_time = 0 /\ open_entry_price = 0
    /\ pending = "None"
    /\ fast_sum = 0 /\ slow_sum = 0
    /\ prev_fast = Zero /\ prev_slow = Zero /\ prev_valid = FALSE
    /\ equity = <<>> /\ drawdown = <<>> /\ trades = <<>>
    /\ metrics = ZeroMetrics /\ warnings = <<>>
    /\ sig_bar = Forced /\ entry_sig = Forced /\ trade_sigs = <<>>
    /\ int_cast \in { "min", "max" }

RrInit == calls = 0 /\ first = <<>>

\* No import is running.
ImpIdle ==
    /\ csv_open = FALSE /\ csv_header = <<>> /\ csv_rows = <<>>
    /\ date_format = "Iso"
    /\ ipc = "idle"
    /\ cols = NoCols
    /\ line_number = 0
    /\ row_issues = <<>> /\ valid_rows = <<>>
    /\ imp = EmptyImportResult

\* No downsampling is running.
DsIdle ==
    /\ points = <<>> /\ pixel_width = 0 /\ display_cap = 0
    /\ dpc = "idle" /\ ds_out = <<>> /\ dp_out = <<>>

\* No timestamp is being parsed.
TpIdle == ts_text = <<>> /\ ts_fmt = "Iso" /\ tpc = "idle" /\ ts_out = NoTime

\* No round trip is running.
RtIdle == rt_dir = "epoch" /\ rt_in = 0 /\ rt_mid = <<>> /\ rt_out = <<>> /\ rpc = "idle"

\* No window is open.
GuiIdle ==
    /\ candles_ = 0 /\ last_backtest_ = 0
    /\ run_enabled = FALSE /\ export_enabled = FALSE
    /\ import_tasks = {} /\ backtest_tasks = {}
    /\ import_watched = 0 /\ backtest_watched = 0
    /\ started = 0
    /\ dataset_id = 0 /\ result_of = 0 /\ exported = <<>>

Init == BtInit /\ RrInit /\ ImpIdle /\ DsIdle /\ TpIdle /\ RtIdle /\ GuiIdle

\* --------------------------------------------------------------- actions

\* backtester.cpp:32: BacktestResult result, value-initialised.
FreshResult ==
    /\ equity' = <<>>
    /\ drawdown' = <<>>
    /\ trades' = <<>>
    /\ metrics' = ZeroMetrics

\* The rolling sums and the previous averages kept from the call before, as
\* if declared static.
StaleLocals ==
    /\ qty' = 0
    /\ open_entry_time' = 0
    /\ open_entry_price' = 0
    /\ pending' = "None"
    /\ UNCHANGED <<fast_sum, slow_sum, prev_fast, prev_slow, prev_valid>>

\* backtester.cpp:50-65: the locals of the bar loop as declared.
FreshLocals ==
    /\ qty' = 0
    /\ open_entry_time' = 0
    /\ open_entry_price' = 0
    /\ pending' = "None"
    /\ fast_sum' = 0
    /\ slow_sum' = 0
    /\ prev_fast' = Zero
    /\ prev_slow' = Zero
    /\ prev_valid' = FALSE

\* backtester.cpp:32-66: the early returns and the set-up of the bar loop.
Start ==
    /\ pc = "start"
    /\ UNCHANGED <<candles, params, settings, int_cast>>
    /\ UNCHANGED notBt
    /\ i' = 0
    /\ sig_bar' = Forced /\ entry_sig' = Forced /\ trade_sigs' = <<>>
    /\ FreshLocals
    /\ IF Len(candles) = 0
       THEN /\ FreshResult
            /\ warnings' = << WarnEmpty >>
            /\ cash' = 0
            /\ pc' = "done"
       ELSE IF ~is_valid(params)
       THEN /\ FreshResult
            /\ warnings' = << WarnInvalid >>
            /\ cash' = 0
            /\ pc' = "done"
       ELSE /\ equity' = [k \in 1..Len(candles) |-> Money(settings.starting_cash)]
            /\ drawdown' = [k \in 1..Len(candles) |-> Zero]
            /\ trades' = <<>>
            /\ metrics' = ZeroMetrics
            /\ warnings' = IF BelowSlowWindow(Len(candles), params.slow_window)
                           THEN << WarnShort >>
                           ELSE <<>>
            /\ cash' = Money(settings.starting_cash)
            /\ pc' = "loop"

\* A pending action left in place by the bar that executes it.
PendingKept(p) == p

\* backtester.cpp:70-107: pending after the execution block of a bar.
PendingAfterFill(p) ==
    IF p = "Buy" THEN "None" ELSE IF p = "Sell" THEN "None" ELSE p

\* backtester.cpp:67-169: one iteration of the bar loop.
BarStep ==
    /\ pc = "loop"
    /\ i < Len(candles)
    /\ LET n == Len(candles)
           bar == candles[i + 1]
           fw == params.fast_window
           sw == params.slow_window
           \* 70-107: execute the pending action at this bar's open
           buy_qty == BuyQty(cash, FillPrice(bar))
           doBuy == pending = "Buy" /\ buy_qty > 0
           doSell == pending = "Sell" /\ qty > 0
           cash1 == IF doBuy THEN cash - BuyCost(buy_qty, FillPrice(bar))
                    ELSE IF doSell THEN cash + SellNet(qty, FillPrice(bar))
                    ELSE cash
           qty1 == IF doBuy THEN buy_qty ELSE IF doSell THEN 0 ELSE qty
           oet1 == IF doBuy THEN FillTime(bar) ELSE IF doSell THEN 0 ELSE open_entry_time
           oep1 == IF doBuy THEN FillPrice(bar) ELSE IF doSell THEN 0 ELSE open_entry_price
           trades1 == IF doSell
                      THEN Append(trades, MakeTrade(open_entry_time, open_entry_price,
                                                    FillTime(bar), FillPrice(bar), qty))
                      ELSE trades
           pending1 == PendingAfterFill(pending)
           \* 109-116: sliding-window sums
           fs == WindowSum(fast_sum, i, fw)
           ss == WindowSum(slow_sum, i, sw)
           \* 118-147: crossover detection
           both_valid == (i + 1 >= fw) /\ (i + 1 >= sw)
           fast == Rat(fs, fw)
           slow == Rat(ss, sw)
           detect == both_valid /\ prev_valid
           sigBuy == detect /\ CrossUp(prev_fast, prev_slow, fast, slow)
                            /\ qty1 = 0 /\ pending1 = "None"
           sigSell == detect /\ ~sigBuy /\ CrossDown(prev_fast, prev_slow, fast, slow)
                             /\ qty1 > 0 /\ pending1 = "None"
           has_next == HasNext(i, n)
           pending2 == IF sigBuy /\ has_next THEN "Buy"
                       ELSE IF sigSell /\ has_next THEN "Sell"
                       ELSE pending1
           warnings2 == IF (sigBuy \/ sigSell) /\ ~has_next
                        THEN Append(warnings, WarnLastBar)
                        ELSE warnings
           \* 149-166: risk exits
           risk == qty1 > 0 /\ pending2 = "None"
           bar_return == BarReturn(bar.c, oep1)
           stop == risk /\ StopLossHit(bar_return)
           take == risk /\ ~stop /\ TakeProfitHit(bar_return)
           pending3 == IF (stop \/ take) /\ has_next THEN "Sell" ELSE pending2
           warnings3 ==
               IF stop
               THEN Append(warnings2, IF has_next THEN WarnStop ELSE WarnStopLast)
               ELSE IF take
               THEN Append(warnings2, IF has_next THEN WarnTake ELSE WarnTakeLast)
               ELSE warnings2
       IN  /\ cash' = cash1
           /\ qty' = qty1
           /\ open_entry_time' = oet1
           /\ open_entry_price' = oep1
           /\ trades' = trades1
           /\ fast_sum' = fs
           /\ slow_sum' = ss
           /\ prev_fast' = IF both_valid THEN fast ELSE prev_fast
           /\ prev_slow' = IF both_valid THEN slow ELSE prev_slow
           /\ prev_valid' = (both_valid \/ prev_valid)
           /\ pending' = pending3
           /\ warnings' = warnings3
           \* 168: mark-to-market
           /\ equity' = [equity EXCEPT ![i + 1] = MarkToMarket(cash1, qty1, bar.c)]
           /\ sig_bar' = IF pending3 # "None" THEN i ELSE Forced
           /\ entry_sig' = IF doBuy THEN sig_bar ELSE IF doSell THEN Forced ELSE entry_sig
           /\ trade_sigs' = IF doSell THEN Append(trade_sigs, <<entry_sig, sig_bar>>)
                            ELSE trade_sigs
    /\ i' = i + 1
    /\ UNCHANGED <<candles, params, settings, pc, drawdown, metrics, int_cast>>
    /\ UNCHANGED notBt

\* A close at the end of the data whether or not a position is open.
OpenPositionOrFlat(q) == q >= 0

\* backtester.cpp:171: a position is open after the loop.
OpenPosition(q) == q > 0

\* backtester.cpp:171-227: forced close, drawdown, metrics, return.
Finish ==
    /\ pc = "loop"
    /\ i = Len(candles)
    /\ LET n == Len(candles)
           last == candles[n]
           force == OpenPosition(qty)
           exit_price == ForcedExitPrice(last)
           cash1 == IF force THEN cash + SellNet(qty, exit_price) ELSE cash
           trades1 == IF force
                      THEN Append(trades, MakeTrade(open_entry_time, open_entry_price,
                                                    last.ts, exit_price, qty))
                      ELSE trades
           equity1 == IF force THEN OverwriteLast(equity, cash1) ELSE equity
           warnings1 == IF force
                        THEN Append(warnings, WarnForced)
                        ELSE warnings
           drawdown1 == [k \in 1..Len(equity1) |-> DrawdownAt(equity1, k)]
       IN  /\ cash' = cash1
           /\ qty' = 0
           /\ trades' = trades1
           /\ equity' = equity1
           /\ warnings' = warnings1
           /\ drawdown' = drawdown1
           /\ metrics' = ComputeMetrics(equity1, trades1, MinDd(drawdown1, Len(drawdown1)))
           /\ trade_sigs' = IF force THEN Append(trade_sigs, <<entry_sig, Forced>>)
                            ELSE trade_sigs
    /\ pc' = "done"
    /\ UNCHANGED <<candles, params, settings, i, open_entry_time, open_entry_price,
                   pending, fast_sum, slow_sum, prev_fast, prev_slow, prev_valid,
                   sig_bar, entry_sig, int_cast>>
    /\ UNCHANGED notBt

BtNext == Start \/ BarStep \/ Finish

\* ------------------------------------------------------ importer actions

ImpInit ==
    /\ \/ csv_open = FALSE /\ csv_header = <<>> /\ csv_rows = <<>>
       \/ csv_open = TRUE /\ csv_header = <<>> /\ csv_rows = <<>>
       \/ \E h \in HeaderSet : \E n \in 0..MaxLinesUnder(h) :
            \E rows \in [1..n -> RowSet] :
                csv_open = TRUE /\ csv_header = h /\ csv_rows = LinesOf(h, rows)
    /\ date_format = "Iso"
    /\ ipc = "open"
    /\ cols = NoCols
    /\ line_number = 0
    /\ row_issues = <<>> /\ valid_rows = <<>>
    /\ imp = EmptyImportResult

\* No backtest is running.
BtIdle ==
    /\ candles = <<>>
    /\ params = [fast_window |-> 1, slow_window |-> 2]
    /\ settings = Settings(6, 1, PctDen, 0, 0)
    /\ pc = "idle"
    /\ i = 0
    /\ cash = 0 /\ qty = 0
    /\ open_entry_time = 0 /\ open_entry_price = 0
    /\ pending = "None"
    /\ fast_sum = 0 /\ slow_sum = 0
    /\ prev_fast = Zero /\ prev_slow = Zero /\ prev_valid = FALSE
    /\ equity = <<>> /\ drawdown = <<>> /\ trades = <<>>
    /\ metrics = ZeroMetrics /\ warnings = <<>>
    /\ sig_bar = Forced /\ entry_sig = Forced /\ trade_sigs = <<>>
    /\ int_cast = "min"

notImp == <<btVars, rrVars, dsVars, tpVars, rtVars, guiVars>>

\* The failed import reporting the file-level error alone.
FailureErrorsFileOnly(issues) == << Issue(0, MsgZeroRows) >>

\* csv_importer.cpp:205-206: the errors of an import no row survived.
FailureErrors(issues) == << Issue(0, MsgZeroRows) >> \o issues

\* The row issues put before the file-level warnings.
SuccessWarningsRowsFirst(file_warnings, issues, partial) ==
    IF partial THEN issues \o file_warnings ELSE file_warnings

\* csv_importer.cpp:245-247: the warnings of a successful import.
SuccessWarnings(file_warnings, issues, partial) ==
    IF partial THEN file_warnings \o issues ELSE file_warnings

\* csv_importer.cpp:103-147: open the file, read and resolve the header.
ImpOpen ==
    /\ ipc = "open"
    /\ UNCHANGED <<csv_open, csv_header, csv_rows, date_format>>
    /\ UNCHANGED notImp
    /\ row_issues' = <<>>
    /\ valid_rows' = <<>>
    /\ IF ~csv_open
       THEN /\ imp' = [EmptyImportResult EXCEPT
                         !.errors = << Issue(0, MsgUnableToOpen(CsvPath)) >>]
            /\ ipc' = "done"
            /\ UNCHANGED <<cols, line_number>>
       ELSE IF csv_header = <<>>
       THEN /\ imp' = [EmptyImportResult EXCEPT !.errors = << Issue(1, MsgEmpty) >>]
            /\ ipc' = "done"
            /\ UNCHANGED <<cols, line_number>>
       ELSE /\ cols' = ResolveColumns(csv_header)
            /\ IF MissingRequired(cols')
               THEN /\ imp' = [EmptyImportResult EXCEPT
                                 !.errors = << Issue(1, MsgMissingColumns) >>]
                    /\ ipc' = "done"
                    /\ UNCHANGED line_number
               ELSE /\ imp' = EmptyImportResult
                    /\ ipc' = "rows"
                    /\ line_number' = 1

\* csv_importer.cpp:148-202: one iteration of the line loop.
ImpRow ==
    /\ ipc = "rows"
    /\ line_number <= Len(csv_rows)
    /\ UNCHANGED <<csv_open, csv_header, csv_rows, date_format, ipc, cols>>
    /\ UNCHANGED notImp
    /\ line_number' = line_number + 1
    /\ LET fields == csv_rows[line_number]
           out == RowOutcome(cols, fields, date_format)
       IN  IF fields = <<>>
           THEN UNCHANGED <<row_issues, valid_rows, imp>>
           ELSE IF out.drop
           THEN /\ imp' = [imp EXCEPT !.dropped_rows = @ + 1]
                /\ row_issues' = Append(row_issues, Issue(line_number', out.why))
                /\ UNCHANGED valid_rows
           ELSE /\ valid_rows' = Append(valid_rows, out.candle)
                /\ UNCHANGED <<row_issues, imp>>

\* csv_importer.cpp:204-249: the outcome once the lines are read.
ImpFinish ==
    /\ ipc = "rows"
    /\ line_number > Len(csv_rows)
    /\ UNCHANGED <<csv_open, csv_header, csv_rows, date_format, cols, line_number,
                   row_issues>>
    /\ UNCHANGED notImp
    /\ ipc' = "done"
    /\ IF valid_rows = <<>>
       THEN /\ imp' = [imp EXCEPT !.errors = FailureErrors(row_issues)]
            /\ UNCHANGED valid_rows
       ELSE LET unordered == Unordered(valid_rows)
                sorted == StableSortByTs(valid_rows)
                deduped == Dedupe(sorted)
                duplicate_count == DuplicateCount(sorted)
                partial == imp.dropped_rows > 0
                warnings1 == IF unordered THEN << Issue(0, MsgUnsorted) >> ELSE <<>>
                warnings2 == IF duplicate_count > 0
                             THEN Append(warnings1, Issue(0, MsgDuplicates(duplicate_count)))
                             ELSE warnings1
            IN  /\ valid_rows' = sorted
                /\ imp' = [imp EXCEPT
                             !.candles = deduped,
                             !.success = TRUE,
                             !.partial_success = partial,
                             !.warnings = SuccessWarnings(warnings2, row_issues, partial)]

ImpNext == ImpOpen \/ ImpRow \/ ImpFinish

ImportInit == BtIdle /\ RrInit /\ ImpInit /\ DsIdle /\ TpIdle /\ RtIdle /\ GuiIdle

ImportSpec == ImportInit /\ [][ImpNext]_vars

Next == BtNext

Spec == Init /\ [][Next]_vars

\* Runs over one bar more than MaxBars, long enough for a second position,
\* with the windows 1 and 2.
LongRunInit ==
    /\ candles \in SeriesOfLen(MaxBars + 1)
    /\ params = [fast_window |-> 1, slow_window |-> 2]
    /\ settings \in SettingsSet
    /\ pc = "start"
    /\ i = 0
    /\ cash = 0 /\ qty = 0
    /\ open_entry_time = 0 /\ open_entry_price = 0
    /\ pending = "None"
    /\ fast_sum = 0 /\ slow_sum = 0
    /\ prev_fast = Zero /\ prev_slow = Zero /\ prev_valid = FALSE
    /\ equity = <<>> /\ drawdown = <<>> /\ trades = <<>>
    /\ metrics = ZeroMetrics /\ warnings = <<>>
    /\ sig_bar = Forced /\ entry_sig = Forced /\ trade_sigs = <<>>
    /\ int_cast \in { "min", "max" }
    /\ RrInit /\ ImpIdle /\ DsIdle /\ TpIdle /\ RtIdle /\ GuiIdle

LongRunSpec == LongRunInit /\ [][Next]_vars

\* ------------------------------------------------------ repeated calls

\* A series from (open, close) pairs.
RECURSIVE MkSeries(_)
MkSeries(oc) ==
    IF oc = <<>> THEN <<>>
    ELSE Append(MkSeries(SubSeq(oc, 1, Len(oc) - 1)),
                Candle(TsOf(Len(oc)), oc[Len(oc)][1],
                       Max(oc[Len(oc)][1], oc[Len(oc)][2]),
                       Min(oc[Len(oc)][1], oc[Len(oc)][2]), oc[Len(oc)][2], 0))

Args(c, p, s) == [candles |-> c, params |-> p, settings |-> s]

\* The calls made between two calls with the same arguments: one that buys,
\* ends force-closed and leaves averages behind, and one that is rejected.
OtherCalls ==
    { Args(MkSeries(<< <<1, 1>>, <<1, 1>>, <<1, 3>>, <<2, 3>> >>),
           [fast_window |-> 1, slow_window |-> 2], Settings(6, 1, PctDen, 0, 0)),
      Args(<<>>, [fast_window |-> 0, slow_window |-> 2], Settings(6, 0, PctDen, 0, 0)) }

\* What a call returns: BacktestResult.
Result ==
    [equity |-> equity, drawdown |-> drawdown, trades |-> trades,
     metrics |-> metrics, warnings |-> warnings]

\* A caller of run_sma_backtest (tools/parameter_sweep.cpp:108-109 calls it
\* in a loop): the call has returned and the next one is made, with the
\* arguments of the first call or with others.  The memory the returned call
\* used keeps its contents.
CallAgain ==
    /\ pc = "done"
    /\ calls < 2
    /\ calls' = calls + 1
    /\ first' = IF calls = 0
                THEN << Args(candles, params, settings), Result >>
                ELSE first
    /\ \E a \in OtherCalls \cup { first'[1] } :
         /\ calls = 1 => a = first[1]
         /\ candles' = a.candles
         /\ params' = a.params
         /\ settings' = a.settings
    /\ pc' = "start"
    /\ UNCHANGED <<i, cash, qty, open_entry_time, open_entry_price, pending,
                   fast_sum, slow_sum, prev_fast, prev_slow, prev_valid,
                   equity, drawdown, trades, metrics, warnings,
                   sig_bar, entry_sig, trade_sigs, int_cast>>
    /\ UNCHANGED <<impVars, dsVars, tpVars, rtVars, guiVars>>

RerunInit ==
    /\ Init
    /\ Len(candles) <= MaxRerunBars

RerunNext == BtNext \/ CallAgain

RerunSpec == RerunInit /\ [][RerunNext]_vars

\* ------------------------------------------------------------ downsampler

MaxPoints == 7
MaxCap == 6
MaxWidth == 4

\* downsampling.hpp SeriesPoint and BucketMinMax.
SeriesPoint(ts, value) == [ts |-> ts, value |-> value]
BucketMinMax(min_ts, min_value, max_ts, max_value) ==
    [min_ts |-> min_ts, min_value |-> min_value, max_ts |-> max_ts, max_value |-> max_value]

\* The point at a C++ index.
At(pts, idx) == pts[idx + 1]

\* A series up to a cap exclusive passed through.
FitsDisplayStrict(n, cap) == n < cap

\* downsampling.cpp:14
FitsDisplay(n, cap) == n <= cap

\* downsampling.cpp:15-20
PassThrough(pts) ==
    [k \in 1..Len(pts) |-> BucketMinMax(pts[k].ts, pts[k].value, pts[k].ts, pts[k].value)]

\* As many buckets as the cap allows points.
BucketCountWide(pw, cap) == Max(1, Min(pw, cap))

\* downsampling.cpp:23
BucketCount(pw, cap) == Max(1, Min(pw, cap \div 2))

\* The minimum moved on ties, to the last point attaining it.
RECURSIVE MinIdxLast(_, _, _, _)
MinIdxLast(pts, min_idx, j, end) ==
    IF j >= end THEN min_idx
    ELSE MinIdxLast(pts, IF At(pts, j).value <= At(pts, min_idx).value THEN j ELSE min_idx,
                    j + 1, end)

\* downsampling.cpp:34-39: min_idx after the scan of [j, end).
RECURSIVE MinIdx(_, _, _, _)
MinIdx(pts, min_idx, j, end) ==
    IF j >= end THEN min_idx
    ELSE MinIdx(pts, IF At(pts, j).value < At(pts, min_idx).value THEN j ELSE min_idx,
                j + 1, end)

\* downsampling.cpp:35-42: max_idx after the scan of [j, end).
RECURSIVE MaxIdx(_, _, _, _)
MaxIdx(pts, max_idx, j, end) ==
    IF j >= end THEN max_idx
    ELSE MaxIdx(pts, IF At(pts, j).value > At(pts, max_idx).value THEN j ELSE max_idx,
                j + 1, end)

\* downsampling.cpp:27-46: the records of buckets b, b + 1, ... appended to acc.
RECURSIVE BucketsFrom(_, _, _, _)
BucketsFrom(pts, bucket_count, b, acc) ==
    IF b >= bucket_count THEN acc
    ELSE LET start == (b * Len(pts)) \div bucket_count
             end == ((b + 1) * Len(pts)) \div bucket_count
             min_idx == MinIdx(pts, start, start + 1, end)
             max_idx == MaxIdx(pts, start, start + 1, end)
         IN  IF start >= end THEN BucketsFrom(pts, bucket_count, b + 1, acc)
             ELSE BucketsFrom(pts, bucket_count, b + 1,
                              Append(acc, BucketMinMax(At(pts, min_idx).ts,
                                                       At(pts, min_idx).value,
                                                       At(pts, max_idx).ts,
                                                       At(pts, max_idx).value)))

\* downsampling.cpp:7-49
downsample_bucket_min_max(pts, pw, cap) ==
    IF pts = <<>> \/ pw = 0 THEN <<>>
    ELSE IF FitsDisplay(Len(pts), cap) THEN PassThrough(pts)
    ELSE BucketsFrom(pts, BucketCount(pw, cap), 0, <<>>)

\* The values of the points, and a series of n points at ascending times.
PointValues == { 1, 2, 3 }
PointsOf(values) == [k \in 1..Len(values) |-> SeriesPoint(TsOf(k), values[k])]

DsInit ==
    /\ \E n \in 0..MaxPoints : \E values \in [1..n -> PointValues] :
          points = PointsOf(values)
    /\ pixel_width \in 0..MaxWidth
    /\ display_cap \in 0..MaxCap
    /\ dpc = "call"
    /\ ds_out = <<>>
    /\ dp_out = <<>>

\* One call of downsample_bucket_min_max.
Downsample ==
    /\ dpc = "call"
    /\ ds_out' = downsample_bucket_min_max(points, pixel_width, display_cap)
    /\ dpc' = "done"
    /\ UNCHANGED <<points, pixel_width, display_cap, dp_out>>
    /\ UNCHANGED <<btVars, rrVars, impVars, tpVars, rtVars, guiVars>>

\* main_window.cpp QPointF(x, y); the cast of a timestamp to qreal is exact
\* below 2^53 and never reverses an order.
QPointF(x, y) == [x |-> x, y |-> y]

\* Each bucket emitting its minimum first.
MinFirst(bucket) ==
    <<QPointF(bucket.min_ts, bucket.min_value), QPointF(bucket.max_ts, bucket.max_value)>>

\* main_window.cpp:93-99: the two points of a bucket, the earlier first.
EarlierFirst(bucket) ==
    IF bucket.min_ts <= bucket.max_ts
    THEN <<QPointF(bucket.min_ts, bucket.min_value), QPointF(bucket.max_ts, bucket.max_value)>>
    ELSE <<QPointF(bucket.max_ts, bucket.max_value), QPointF(bucket.min_ts, bucket.min_value)>>

\* main_window.cpp:92-100: the points of buckets k, k + 1, ... in order.
RECURSIVE BucketPoints(_, _)
BucketPoints(buckets, k) ==
    IF k > Len(buckets) THEN <<>>
    ELSE EarlierFirst(buckets[k]) \o BucketPoints(buckets, k + 1)

\* main_window.cpp:75-102, with kDisplayCap passed as cap.
display_points(src, pw, cap) ==
    IF src = <<>> THEN <<>>
    ELSE IF Len(src) <= cap THEN [k \in 1..Len(src) |-> QPointF(src[k].ts, src[k].value)]
    ELSE BucketPoints(downsample_bucket_min_max(src, Max(1, pw), cap), 1)

\* One call of display_points.
DisplayPoints ==
    /\ dpc = "call"
    /\ dp_out' = display_points(points, pixel_width, display_cap)
    /\ dpc' = "shown"
    /\ UNCHANGED <<points, pixel_width, display_cap, ds_out>>
    /\ UNCHANGED <<btVars, rrVars, impVars, tpVars, rtVars, guiVars>>

DownsampleNext == Downsample \/ DisplayPoints

DownsampleInit == BtIdle /\ RrInit /\ ImpIdle /\ DsInit /\ TpIdle /\ RtIdle /\ GuiIdle

DownsampleSpec == DownsampleInit /\ [][DownsampleNext]_vars

\* ------------------------------------------------------ timestamp parsing

\* The time part h:mi:s of a timestamp after a separator.
TimeOfDay(sep, h, mi, s) == << C(sep), D(h), C(":"), D(mi), C(":"), D(s) >>

\* Three numbers joined by a separator: y-m-d, or a/b/y.
Joined(a, sep, b, c) == << D(a), C(sep), D(b), C(sep), D(c) >>

\* The calendar fields and the times of day tried, in and out of range.
MonthSet == { 0, 1, 12, 13 }
DaySet == { 0, 1, 31, 32 }
TimeSet == { << 10, 20, 30 >>, << 23, 59, 60 >>, << 24, 0, 0 >>, << 10, 60, 0 >>,
             << 10, 20, 61 >> }

\* What follows the date: nothing, a time part after a blank or a T, a time
\* part without seconds, a stray character, a time part and a stray
\* character.
TailSet ==
    { <<>>, << C("x") >>, << C(" "), D(10), C(":"), D(20) >> }
    \cup { TimeOfDay(sep, t[1], t[2], t[3]) : sep \in { " ", "T" }, t \in TimeSet }
    \cup { TimeOfDay(" ", 10, 20, 30) \o << C("x") >> }

\* The texts: dates in the ISO and in both slash orders with every tail, a
\* text that is no date, and the empty text.
TextSet ==
    { Joined(2024, "-", m, d) \o tail : m \in MonthSet, d \in DaySet, tail \in TailSet }
    \cup { Joined(a, "/", b, 2024) \o tail :
             a \in MonthSet \cup DaySet, b \in MonthSet \cup DaySet, tail \in TailSet }
    \cup { << C("n/a") >>, <<>> }

TpInit ==
    /\ ts_text \in TextSet
    /\ ts_fmt \in { "Iso", "Mdy", "Dmy" }
    /\ tpc = "call"
    /\ ts_out = NoTime

\* One call of parse_timestamp_utc.
ParseTimestamp ==
    /\ tpc = "call"
    /\ ts_out' = parse_timestamp_utc(ts_text, ts_fmt)
    /\ tpc' = "done"
    /\ UNCHANGED <<ts_text, ts_fmt>>
    /\ UNCHANGED <<btVars, rrVars, impVars, dsVars, rtVars, guiVars>>

TimeNext == ParseTimestamp

TimeInit == BtIdle /\ RrInit /\ ImpIdle /\ DsIdle /\ TpInit /\ RtIdle /\ GuiIdle

TimeSpec == TimeInit /\ [][TimeNext]_vars

\* ----------------------------------------------------- timestamp round trip

(***************************************************************************)
(* The text format_timestamp_utc_iso8601 writes is a sequence of           *)
(* characters, so that the width and the zero padding of its fields show.  *)
(* TokensOf reads such a text as sscanf's %d does: a run of digits is one  *)
(* number, whatever its leading zeros.                                      *)
(***************************************************************************)
DigitChars == << "0", "1", "2", "3", "4", "5", "6", "7", "8", "9" >>

IsDigit(ch) == \E d \in 1..10 : DigitChars[d] = ch

DigitValue(ch) == (CHOOSE d \in 1..10 : DigitChars[d] = ch) - 1

RECURSIVE DecimalChars(_)
DecimalChars(n) ==
    IF n < 10 THEN << DigitChars[n + 1] >>
    ELSE DecimalChars(n \div 10) \o << DigitChars[(n % 10) + 1] >>

RECURSIVE ZeroPadded(_, _)
ZeroPadded(chars, width) ==
    IF Len(chars) >= width THEN chars ELSE ZeroPadded(<< "0" >> \o chars, width)

\* printf's %0<width>d.
PrintfD(n, width) ==
    IF n < 0 THEN << "-" >> \o ZeroPadded(DecimalChars(0 - n), width - 1)
    ELSE ZeroPadded(DecimalChars(n), width)

\* The length of the run of digits at the head of chars.
RECURSIVE DigitRun(_)
DigitRun(chars) ==
    IF chars /= <<>> /\ IsDigit(Head(chars)) THEN 1 + DigitRun(Tail(chars)) ELSE 0

RECURSIVE DecimalValue(_)
DecimalValue(chars) ==
    IF chars = <<>> THEN 0
    ELSE 10 * DecimalValue(SubSeq(chars, 1, Len(chars) - 1))
            + DigitValue(chars[Len(chars)])

RECURSIVE TokensOf(_)
TokensOf(chars) ==
    IF chars = <<>> THEN <<>>
    ELSE LET run == DigitRun(chars)
         IN  IF run > 0
             THEN << D(DecimalValue(SubSeq(chars, 1, run))) >>
                      \o TokensOf(SubSeq(chars, run + 1, Len(chars)))
             ELSE << C(Head(chars)) >> \o TokensOf(Tail(chars))

\* gmtime_r: the broken-down UTC time of an epoch second.
gmtime(t) ==
    LET days == t \div 86400
        rem == t % 86400
        z == days + 719468
        era == z \div 146097
        doe == z - era * 146097
        yoe == (doe - doe \div 1460 + doe \div 36524 - doe \div 146096) \div 365
        doy == doe - (365 * yoe + yoe \div 4 - yoe \div 100)
        mp == (5 * doy + 2) \div 153
        mday == doy - (153 * mp + 2) \div 5 + 1
        month == IF mp < 10 THEN mp + 3 ELSE mp - 9
        year == yoe + era * 400 + (IF month <= 2 THEN 1 ELSE 0)
    IN  Tm(year - 1900, month - 1, mday, rem \div 3600, (rem % 3600) \div 60, rem % 60)

format_timestamp_utc_iso8601(ts) ==
    LET out_tm == gmtime(ts)
    IN  PrintfD(out_tm.tm_year + 1900, 4) \o << "-" >>
          \o PrintfD(out_tm.tm_mon + 1, 2) \o << "-" >>
          \o PrintfD(out_tm.tm_mday, 2) \o << "T" >>
          \o PrintfD(out_tm.tm_hour, 2) \o << ":" >>
          \o PrintfD(out_tm.tm_min, 2) \o << ":" >>
          \o PrintfD(out_tm.tm_sec, 2) \o << "Z" >>

\* The bounds of the round trip's inputs: days since the epoch around the
\* ends of months, of years and of February in common and leap years, and
\* seconds of the day around the ends of minutes and hours.
EpochDays == { 0, 58, 59, 365, 10956, 10957, 11016, 19723, 19782, 19783, 20088 }
DaySeconds == { 0, 1, 59, 60, 3599, 37230, 86399 }
EpochSet == { d * 86400 + s : d \in EpochDays, s \in DaySeconds }

\* The date-only ISO text of year-month-day, zero padded.
DateText(y, m, d) ==
    PrintfD(y, 4) \o << "-" >> \o PrintfD(m, 2) \o << "-" >> \o PrintfD(d, 2)

DateYears == { 1970, 2000, 2023, 2024 }
DateMonths == { 1, 2, 3, 12 }
DateDays == { 1, 28, 29, 30, 31 }
DateTextSet == { DateText(y, m, d) : y \in DateYears, m \in DateMonths, d \in DateDays }

RtInit ==
    /\ rt_dir \in { "epoch", "text" }
    /\ rt_in \in (IF rt_dir = "epoch" THEN EpochSet ELSE DateTextSet)
    /\ rt_mid = <<>> /\ rt_out = <<>>
    /\ rpc = "first"

\* format_timestamp_utc_iso8601(e).
FormatEpoch ==
    /\ rpc = "first" /\ rt_dir = "epoch"
    /\ rt_mid' = format_timestamp_utc_iso8601(rt_in)
    /\ rpc' = "second"
    /\ UNCHANGED <<rt_dir, rt_in, rt_out>>
    /\ UNCHANGED <<btVars, rrVars, impVars, dsVars, tpVars, guiVars>>

\* parse_timestamp_utc of the text just written, with DateFormat::Iso.
ParseFormatted ==
    /\ rpc = "second" /\ rt_dir = "epoch"
    /\ rt_out' = parse_timestamp_utc(TokensOf(rt_mid), "Iso")
    /\ rpc' = "done"
    /\ UNCHANGED <<rt_dir, rt_in, rt_mid>>
    /\ UNCHANGED <<btVars, rrVars, impVars, dsVars, tpVars, guiVars>>

\* parse_timestamp_utc(D, DateFormat::Iso).
ParseDate ==
    /\ rpc = "first" /\ rt_dir = "text"
    /\ rt_mid' = parse_timestamp_utc(TokensOf(rt_in), "Iso")
    /\ rpc' = "second"
    /\ UNCHANGED <<rt_dir, rt_in, rt_out>>
    /\ UNCHANGED <<btVars, rrVars, impVars, dsVars, tpVars, guiVars>>

\* format_timestamp_utc_iso8601 of the instant just parsed.
FormatParsed ==
    /\ rpc = "second" /\ rt_dir = "text"
    /\ rt_mid.ok
    /\ rt_out' = format_timestamp_utc_iso8601(rt_mid.ts)
    /\ rpc' = "done"
    /\ UNCHANGED <<rt_dir, rt_in, rt_mid>>
    /\ UNCHANGED <<btVars, rrVars, impVars, dsVars, tpVars, guiVars>>

RoundTripNext == FormatEpoch \/ ParseFormatted \/ ParseDate \/ FormatParsed

RoundTripInit == BtIdle /\ RrInit /\ ImpIdle /\ DsIdle /\ TpIdle /\ RtInit /\ GuiIdle

RoundTripSpec == RoundTripInit /\ [][RoundTripNext]_vars

\* ---------------------------------------------------------------- GUI host

(***************************************************************************)
(* MainWindow hands imports and backtests to QtConcurrent::run and learns   *)
(* of their end through one QFutureWatcher each.  A task is a record of its *)
(* number and of the number of candles it was given or will return; a       *)
(* watcher's setFuture drops the future it held, whose computation goes on  *)
(* in the thread pool.  The handlers run on the GUI thread, one at a time.  *)
(***************************************************************************)
MaxTasks == 5
MaxCandles == 2

Task(id, n) == [id |-> id, n |-> n]

\* main_window.cpp:420-423: a backtest over local_series, the copy of the n
\* candles of the import src.
SeriesTask(id, n, src) == [id |-> id, n |-> n, src |-> src]

Watched(tasks, id) == { t \in tasks : t.id = id }

\* MainWindow::MainWindow: setup_actions disables Run Backtest and Export,
\* and no dataset is loaded.
GuiInit ==
    /\ candles_ = 0 /\ last_backtest_ = 0
    /\ run_enabled = FALSE /\ export_enabled = FALSE
    /\ import_tasks = {} /\ backtest_tasks = {}
    /\ import_watched = 0 /\ backtest_watched = 0
    /\ started = 0
    /\ dataset_id = 0 /\ result_of = 0 /\ exported = <<>>

\* MainWindow::on_open_csv with a file chosen; the import started returns n
\* candles, none when it fails.
OpenCsv ==
    /\ started < MaxTasks
    /\ \E n \in 0..MaxCandles :
          import_tasks' = import_tasks \cup { Task(started + 1, n) }
    /\ candles_' = 0
    /\ last_backtest_' = 0
    /\ run_enabled' = FALSE
    /\ export_enabled' = FALSE
    /\ import_watched' = started + 1
    /\ started' = started + 1
    /\ dataset_id' = 0
    /\ result_of' = 0
    /\ UNCHANGED <<backtest_tasks, backtest_watched, exported>>
    /\ UNCHANGED <<btVars, rrVars, impVars, dsVars, tpVars, rtVars>>

\* The import import_watcher_ holds ends: the finished handler runs
\* render_import_result.
ImportFinished ==
    \E t \in Watched(import_tasks, import_watched) :
        /\ import_tasks' = import_tasks \ { t }
        /\ IF t.n = 0
           THEN UNCHANGED <<candles_, run_enabled, dataset_id>>
           ELSE candles_' = t.n /\ run_enabled' = TRUE /\ dataset_id' = t.id
        /\ UNCHANGED <<last_backtest_, export_enabled, backtest_tasks,
                       import_watched, backtest_watched, started, result_of, exported>>
        /\ UNCHANGED <<btVars, rrVars, impVars, dsVars, tpVars, rtVars>>

\* An import whose future import_watcher_ no longer holds ends unnoticed.
ImportDropped ==
    \E t \in import_tasks \ Watched(import_tasks, import_watched) :
        /\ import_tasks' = import_tasks \ { t }
        /\ UNCHANGED <<candles_, last_backtest_, run_enabled, export_enabled,
                       backtest_tasks, import_watched, backtest_watched, started,
                       dataset_id, result_of, exported>>
        /\ UNCHANGED <<btVars, rrVars, impVars, dsVars, tpVars, rtVars>>

\* MainWindow::on_run_backtest, triggered through the enabled run_action_
\* with the windows of the spin boxes.
RunBacktest ==
    /\ run_enabled
    /\ started < MaxTasks
    /\ \E p \in ParamsSet :
          IF candles_ = 0 \/ ~is_valid(p)
          THEN UNCHANGED guiVars
          ELSE /\ run_enabled' = FALSE
               /\ export_enabled' = FALSE
               /\ backtest_tasks' =
                      backtest_tasks \cup { SeriesTask(started + 1, candles_, dataset_id) }
               /\ backtest_watched' = started + 1
               /\ started' = started + 1
               /\ UNCHANGED <<candles_, last_backtest_, import_tasks, import_watched,
                              dataset_id, result_of, exported>>
    /\ UNCHANGED <<btVars, rrVars, impVars, dsVars, tpVars, rtVars>>

\* The backtest backtest_watcher_ holds ends: the finished handler stores
\* the result, whose equity has one sample per candle, and sets the actions.
BacktestFinished ==
    \E t \in Watched(backtest_tasks, backtest_watched) :
        /\ backtest_tasks' = backtest_tasks \ { t }
        /\ last_backtest_' = t.n
        /\ run_enabled' = (candles_ /= 0)
        /\ export_enabled' = (t.n /= 0)
        /\ result_of' = t.src
        /\ UNCHANGED <<candles_, import_tasks, import_watched, backtest_watched,
                       started, dataset_id, exported>>
        /\ UNCHANGED <<btVars, rrVars, impVars, dsVars, tpVars, rtVars>>

\* A backtest whose future backtest_watcher_ no longer holds ends unnoticed.
BacktestDropped ==
    \E t \in backtest_tasks \ Watched(backtest_tasks, backtest_watched) :
        /\ backtest_tasks' = backtest_tasks \ { t }
        /\ UNCHANGED <<candles_, last_backtest_, run_enabled, export_enabled,
                       import_tasks, import_watched, backtest_watched, started,
                       dataset_id, result_of, exported>>
        /\ UNCHANGED <<btVars, rrVars, impVars, dsVars, tpVars, rtVars>>

\* MainWindow::on_export_results, triggered through the enabled
\* export_action_ with a folder chosen: the files are written from candles_
\* and last_backtest_.
ExportResults ==
    /\ export_enabled
    /\ IF candles_ = 0 \/ last_backtest_ = 0
       THEN UNCHANGED exported
       ELSE exported' = [candles |-> candles_, dataset |-> dataset_id,
                         equity |-> last_backtest_, result_of |-> result_of]
    /\ UNCHANGED <<candles_, last_backtest_, run_enabled, export_enabled, import_tasks,
                   backtest_tasks, import_watched, backtest_watched, started,
                   dataset_id, result_of>>
    /\ UNCHANGED <<btVars, rrVars, impVars, dsVars, tpVars, rtVars>>

GuiNext ==
    \/ OpenCsv \/ ImportFinished \/ ImportDropped
    \/ RunBacktest \/ BacktestFinished \/ BacktestDropped
    \/ ExportResults

GuiSpecInit == BtIdle /\ RrInit /\ ImpIdle /\ DsIdle /\ TpIdle /\ RtIdle /\ GuiInit

GuiSpec == GuiSpecInit /\ [][GuiNext]_vars

\* ================================================================ claims

N == Len(candles)
ValidRun == N > 0 /\ is_valid(params)
Done == pc = "done"

\* ---- C1: every entry fills at the open and the timestamp of the bar after
\* the bar whose close raised the buy signal, and every exit that is not the
\* forced close fills at the open and the timestamp of the bar after the bar
\* on which the sell was scheduled; no fill is on the signal bar itself.
FillsAt(time, price, sig) ==
    /\ sig >= 0
    /\ sig + 2 <= N
    /\ time = candles[sig + 2].ts
    /\ price = candles[sig + 2].o
    /\ time # candles[sig + 1].ts

C1_NextBarExecution ==
    /\ qty > 0 /\ pc = "loop" => FillsAt(open_entry_time, open_entry_price, entry_sig)
    /\ Len(trade_sigs) = Len(trades)
    /\ \A k \in 1..Len(trades) :
         /\ FillsAt(trades[k].entry_time, trades[k].entry_price, trade_sigs[k][1])
         /\ trade_sigs[k][2] # Forced =>
              FillsAt(trades[k].exit_time, trades[k].exit_price, trade_sigs[k][2])

\* A finished run with a trade that was entered and exited on signals, at
\* prices that differ from the closes of the bars they fill on.
C1_Witness ==
    /\ Done
    /\ \E k \in 1..Len(trades) :
         /\ trade_sigs[k][2] # Forced
         /\ candles[trade_sigs[k][1] + 2].o # candles[trade_sigs[k][1] + 2].c
         /\ candles[trade_sigs[k][2] + 2].o # candles[trade_sigs[k][2] + 2].c

\* ---- C2: for a non-empty series and valid parameters the returned equity
\* and drawdown sequences have one sample per input bar.
C2_Aligned ==
    Done /\ ValidRun => Len(equity) = N /\ Len(drawdown) = N

\* A finished run of full length with a forced close, its trade and warnings.
C2_Witness ==
    /\ Done /\ ValidRun /\ N = MaxBars
    /\ Len(trades) >= 1
    /\ Len(warnings) >= 2 /\ warnings[Len(warnings)] = WarnForced

\* ---- C3: every drawdown sample of a result lies in [-1, 0].
C3_DrawdownRange ==
    \A k \in 1..Len(drawdown) :
        RatLe(Rat(0 - 1, 1), drawdown[k]) /\ RatLe(drawdown[k], Zero)

\* A finished run whose equity fell below an earlier peak that was above the
\* starting cash.
C3_Witness ==
    /\ Done /\ ValidRun
    /\ \E j, k \in 1..N :
         j < k /\ equity[j] > equity[1] /\ RatLt(drawdown[k], Zero)

\* ---- C4: max_drawdown_pct is 100 times the least drawdown sample, and
\* sample k is (equity[k] - peak_k) / peak_k, peak_k the greatest of
\* equity[1..k], on the equity sequence as returned (the last sample being
\* the one the forced close wrote).
RefPeak(k) == CHOOSE m \in { equity[j] : j \in 1..k } : \A j \in 1..k : equity[j] <= m

C4_MaxDrawdown ==
    Done /\ ValidRun =>
        /\ \A k \in 1..N : drawdown[k] = Rat(equity[k] - RefPeak(k), RefPeak(k))
        /\ \E k \in 1..N : RatEq(metrics.max_drawdown_pct, RatTimes(drawdown[k], 100))
        /\ \A k \in 1..N : RatLe(metrics.max_drawdown_pct, RatTimes(drawdown[k], 100))

\* A finished run whose forced close lowered the last equity sample, which is
\* the only sample below its peak.
C4_Witness ==
    /\ Done /\ ValidRun
    /\ warnings # <<>> /\ warnings[Len(warnings)] = WarnForced
    /\ RatLt(drawdown[N], Zero)
    /\ \A k \in 1..(N - 1) : drawdown[k] = Zero
    /\ equity[N] = cash

\* ---- C5: leaving the loop with an open position appends exactly one trade
\* that exits at the final candle's timestamp and close, replaces the last
\* equity sample by the cash realised after the exit commission and appends
\* the force-closed warning; leaving it flat appends no trade and no warning.
AfterLoop == pc = "loop" /\ i = N

C5_Step ==
    AfterLoop =>
        /\ qty > 0 =>
             /\ Len(trades') = Len(trades) + 1
             /\ SubSeq(trades', 1, Len(trades)) = trades
             /\ trades'[Len(trades')].exit_time = candles[N].ts
             /\ trades'[Len(trades')].exit_price = candles[N].c
             /\ trades'[Len(trades')].qty = qty
             /\ cash' = cash + Money(qty * candles[N].c)
                             - qty * candles[N].c * settings.commission_pct
             /\ Len(equity') = N
             /\ equity'[N] = cash'
             /\ \A k \in 1..(N - 1) : equity'[k] = equity[k]
             /\ warnings' = Append(warnings, WarnForced)
        /\ qty = 0 =>
             /\ trades' = trades
             /\ warnings' = warnings
             /\ equity' = equity

C5_ForcedClose == [][C5_Step]_vars

\* A finished run that was force-closed with a commission charged, at a
\* final close that differs from the final open.
C5_Witness ==
    /\ Done /\ ValidRun
    /\ settings.commission_pct > 0
    /\ Len(trades) >= 1
    /\ trade_sigs[Len(trades)][2] = Forced
    /\ trades[Len(trades)].exit_time = candles[N].ts
    /\ candles[N].o # candles[N].c
    /\ warnings[Len(warnings)] = WarnForced

\* ---- C6: a non-empty series shorter than slow_window, with valid
\* parameters, runs to the end and returns no trade, the below-slow_window
\* warning, every equity sample at the starting cash and every drawdown at 0.
ShortRun == ValidRun /\ N < params.slow_window

C6_ShortDataset ==
    /\ ShortRun /\ pc = "loop" => trades = <<>> /\ qty = 0 /\ pending = "None"
    /\ ShortRun /\ Done =>
         /\ i = N
         /\ trades = <<>>
         /\ \E w \in 1..Len(warnings) : warnings[w] = WarnShort
         /\ Len(equity) = N /\ Len(drawdown) = N
         /\ \A k \in 1..N : equity[k] = Money(settings.starting_cash)
         /\ \A k \in 1..N : drawdown[k] = Zero

\* A finished run over two bars with slow_window = 3.
C6_Witness == Done /\ ShortRun /\ N = 2 /\ params.slow_window = 3 /\ i = N

\* ---- C7: an empty series or invalid parameters end the call before the
\* simulation, with empty equity, drawdown and trades, all-zero metrics and
\* one warning, whose text tells the two cases apart.
Degenerate == N = 0 \/ ~(params.fast_window > 0 /\ params.slow_window > 0
                         /\ params.fast_window < params.slow_window)

C7_Rejected ==
    /\ WarnEmpty # WarnInvalid
    /\ Degenerate => pc # "loop"
    /\ Degenerate /\ Done =>
         /\ equity = <<>> /\ drawdown = <<>> /\ trades = <<>>
         /\ metrics = ZeroMetrics
         /\ Len(warnings) = 1
         /\ warnings[1] = IF N = 0 THEN WarnEmpty ELSE WarnInvalid

\* A call with bars and fast_window = slow_window, returned.
C7_Witness ==
    Done /\ N > 0 /\ params.fast_window = params.slow_window /\ warnings = << WarnInvalid >>

\* ---- C8 (under RerunSpec): a call with the arguments of the first call,
\* made right after it or after another call, returns the equity, drawdown,
\* trades, metrics and warnings the first call returned.
C8_Deterministic ==
    Done /\ calls > 0 /\ Args(candles, params, settings) = first[1] => Result = first[2]

\* The first call bought and was force-closed, another call ran in between,
\* and the first call's arguments have been run again.
C8_Witness ==
    /\ Done /\ calls = 2
    /\ Args(candles, params, settings) = first[1]
    /\ Len(first[2].trades) >= 1
    /\ Len(first[2].warnings) >= 1

\* ---------------------------------------------------------------------------
\* Claims about import_ohlcv_csv, under ImportSpec.

Imported == ipc = "done" /\ imp.success

HasWarning(message) == \E k \in 1..Len(imp.warnings) : imp.warnings[k].message = message

\* C9: the candles of every successful import have strictly ascending
\* timestamps, so no two of them share a timestamp, whatever the order and
\* the multiplicity of the timestamps among the lines of the file.
C9_StrictlyAscending ==
    imp.success =>
        \A k \in 2..Len(imp.candles) : imp.candles[k - 1].ts < imp.candles[k].ts

\* A successful import of a file whose kept lines were out of order and held
\* one timestamp twice.
C9_Witness ==
    /\ Imported
    /\ Len(imp.candles) >= 2
    /\ HasWarning(MsgUnsorted)
    /\ HasWarning(MsgDuplicates(1))

PositivePrice(x) == FLt(0, x)
NonNegativeVolume(x) == FLe(0, x)

\* C10: every candle import_ohlcv_csv returns has open, high, low and close
\* above zero and a volume of at least zero.
C10_PositivePrices ==
    \A k \in 1..Len(imp.candles) :
        /\ PositivePrice(imp.candles[k].o) /\ PositivePrice(imp.candles[k].h)
        /\ PositivePrice(imp.candles[k].l) /\ PositivePrice(imp.candles[k].c)
        /\ NonNegativeVolume(imp.candles[k].v)

\* The normalised names of the header's cells.
HeaderNames == { normalize_header(csv_header[k]) : k \in 1..Len(csv_header) }

\* The header has no time column, or lacks a price or the volume column.
HeaderLacksColumn ==
    \/ /\ "timestamp" \notin HeaderNames /\ "date" \notin HeaderNames
       /\ ~("dtyyyymmdd" \in HeaderNames /\ "time" \in HeaderNames)
    \/ \E name \in { "open", "high", "low", "close" } : name \notin HeaderNames
    \/ "volume" \notin HeaderNames /\ "vol" \notin HeaderNames

\* The import has returned for a file that was opened and has a header line.
ReturnedWithHeader == ipc = "done" /\ csv_open /\ csv_header # <<>>

\* C11: when the header lacks a time column or any of open, high, low, close,
\* volume, the import fails without candles, dropped rows or warnings, with
\* exactly one error, a file-level issue (line 0) citing the missing columns,
\* and no data line is read.
C11_MissingColumns ==
    ReturnedWithHeader /\ HeaderLacksColumn =>
        /\ imp = [EmptyImportResult EXCEPT !.errors = << Issue(0, MsgMissingColumns) >>]
        /\ line_number = 0

\* What each data line of the file yields under the file's header; a blank
\* line yields nothing and is given the outcome of a kept line with no candle.
Outcomes ==
    LET cl == ResolveColumns(csv_header)
    IN  [k \in 1..Len(csv_rows) |->
            IF csv_rows[k] = <<>> THEN [drop |-> FALSE, blank |-> TRUE]
            ELSE RowOutcome(cl, csv_rows[k], date_format)]

\* Of outcomes o: the lines that are not blank and fail validation, and
\* those that pass.
DroppedLines(o) == { k \in DOMAIN o : csv_rows[k] # <<>> /\ o[k].drop }
SurvivingLines(o) == { k \in DOMAIN o : csv_rows[k] # <<>> /\ ~o[k].drop }

\* The issues of the dropped lines among the first n data lines, in file
\* order; data line k is line k + 1 of the file.
RECURSIVE ExpectedRowIssues(_, _)
ExpectedRowIssues(o, n) ==
    IF n = 0 THEN <<>>
    ELSE IF n \in DroppedLines(o)
    THEN Append(ExpectedRowIssues(o, n - 1), Issue(n + 1, o[n].why))
    ELSE ExpectedRowIssues(o, n - 1)

\* The import has returned for a file with a usable header.
ReturnedAfterRows == ReturnedWithHeader /\ ~HeaderLacksColumn

\* C12: when no data line survives validation the import fails, not partial,
\* without candles or warnings; its errors are the file-level (line 0) zero
\* valid rows error followed by one error per dropped line with that line's
\* number, and dropped_rows is the number of those per-line errors.
C12_ZeroRowsFail ==
    ReturnedAfterRows =>
        LET o == Outcomes
        IN  SurvivingLines(o) = {} =>
                /\ ~imp.success /\ ~imp.partial_success
                /\ imp.candles = <<>> /\ imp.warnings = <<>>
                /\ imp.errors = << Issue(0, MsgZeroRows) >>
                                    \o ExpectedRowIssues(o, Len(csv_rows))
                /\ imp.dropped_rows = Cardinality(DroppedLines(o))
                /\ imp.dropped_rows = Len(imp.errors) - 1

\* A failed import of a file with a blank line between two dropped lines.
C12_Witness ==
    /\ ReturnedAfterRows /\ ~imp.success
    /\ Len(csv_rows) = 3 /\ csv_rows[2] = <<>>
    /\ imp.dropped_rows = 2
    /\ imp.errors[3].line = 4

\* C13: when a data line survives the import succeeds without errors,
\* partial_success says whether a line was dropped, and the issues of the
\* dropped lines are in the warnings exactly when it is partial, after the
\* file-level unsorted and duplicate warnings.
C13_SuccessOutcome ==
    ReturnedAfterRows =>
        LET o == Outcomes
        IN  SurvivingLines(o) # {} =>
                /\ imp.success /\ imp.errors = <<>>
                /\ imp.dropped_rows = Cardinality(DroppedLines(o))
                /\ imp.partial_success = (imp.dropped_rows > 0)
                /\ \E j \in 0..Len(imp.warnings) :
                      /\ \A k \in 1..j : imp.warnings[k].line = 0
                      /\ SubSeq(imp.warnings, j + 1, Len(imp.warnings))
                            = IF imp.partial_success
                              THEN ExpectedRowIssues(o, Len(csv_rows))
                              ELSE <<>>

\* A partial import with a file-level warning followed by a row issue.
C13_Witness ==
    /\ ReturnedAfterRows /\ imp.success /\ imp.partial_success
    /\ Len(imp.warnings) >= 2
    /\ imp.warnings[1].line = 0
    /\ imp.warnings[Len(imp.warnings)].line > 0

\* The timestamps the surviving lines carry.
SurvivingTs(o) == { o[k].candle.ts : k \in SurvivingLines(o) }

\* The last surviving line of the file that carries timestamp t.
LastLineWith(o, t) ==
    CHOOSE k \in SurvivingLines(o) :
        /\ o[k].candle.ts = t
        /\ \A j \in SurvivingLines(o) : o[j].candle.ts = t => j <= k

\* The number of surviving lines collapsed into another line's candle.
CollapsedCount(o) == Cardinality(SurvivingLines(o)) - Cardinality(SurvivingTs(o))

\* C14: for every timestamp the surviving lines carry, the candle returned
\* for it is that of the last surviving line of the file carrying it, and
\* when d > 0 lines were collapsed exactly one file-level warning reports d.
C14_KeepLast ==
    ReturnedAfterRows =>
        LET o == Outcomes
            d == CollapsedCount(o)
        IN  SurvivingLines(o) # {} =>
                /\ \A t \in SurvivingTs(o) :
                      \E k \in 1..Len(imp.candles) :
                          imp.candles[k] = o[LastLineWith(o, t)].candle
                /\ Len(imp.candles) = Cardinality(SurvivingTs(o))
                /\ d > 0 =>
                      Cardinality({ k \in 1..Len(imp.warnings) :
                                      imp.warnings[k] = Issue(0, MsgDuplicates(d)) }) = 1

\* Three lines of one timestamp, the last of them with another close than
\* the first: two lines are collapsed and the last line's candle is kept.
C14_Witness ==
    /\ ReturnedAfterRows /\ imp.success
    /\ Len(csv_rows) = 3
    /\ LET o == Outcomes
       IN  /\ CollapsedCount(o) = 2
           /\ o[1].candle.c # o[3].candle.c
           /\ imp.candles = << o[3].candle >>
    /\ HasWarning(MsgDuplicates(2))

\* Some surviving line has a smaller timestamp than the surviving line
\* before it in the file.
SurvivorsOutOfOrder(o) ==
    \E j, k \in SurvivingLines(o) :
        /\ j < k
        /\ \A m \in SurvivingLines(o) : ~(j < m /\ m < k)
        /\ o[k].candle.ts < o[j].candle.ts

HasDuplicateWarning == \E d \in 1..Len(csv_rows) : HasWarning(MsgDuplicates(d))

\* C15: a file with surviving lines and no dropped line imports with
\* success, dropped_rows = 0 and partial_success false, whatever the order
\* and repetition of its timestamps; the unsorted warning is present iff a
\* surviving line has a smaller timestamp than the surviving line before it,
\* and the duplicate warning is present iff a duplicate was collapsed.
C15_Repaired ==
    ReturnedAfterRows =>
        LET o == Outcomes
        IN  SurvivingLines(o) # {} =>
                /\ DroppedLines(o) = {} =>
                      imp.success /\ imp.dropped_rows = 0 /\ ~imp.partial_success
                /\ HasWarning(MsgUnsorted) <=> SurvivorsOutOfOrder(o)
                /\ HasDuplicateWarning <=> CollapsedCount(o) > 0

\* Three valid lines, day 2 then day 1 twice: both warnings, nothing dropped.
C15_Witness ==
    /\ ReturnedAfterRows /\ imp.success
    /\ Len(imp.candles) = 2
    /\ HasWarning(MsgUnsorted) /\ HasWarning(MsgDuplicates(1))
    /\ LET o == Outcomes
       IN  /\ Cardinality(SurvivingLines(o)) = 3 /\ DroppedLines(o) = {}
           /\ SurvivorsOutOfOrder(o) /\ CollapsedCount(o) = 1

\* The column of the header with a normalised name, and the cell data line k
\* has in it.
ColumnOf(name) == CHOOSE j \in 1..Len(csv_header) : normalize_header(csv_header[j]) = name
Field(k, name) == csv_rows[k][ColumnOf(name)]

\* 2024-01-01T00:00:00Z, day 19723 since 1970-01-01, and an hour of a day of
\* that month.
Jan2024 == 19723 * 86400
InstantOf(day, hour) == Jan2024 + 86400 * (day - 1) + 3600 * hour

\* The time part hh:00:00 of a timestamp, after a blank or a T.
TimePart(sep, hour) == << C(sep), D(hour), C(":"), D(0), C(":"), D(0) >>

\* The (day, hour) pairs of January 2024 a data line states in a clean way:
\* in a date column as 2024-01-dd, alone or followed by a time part; in the
\* split columns as 202401dd and hh0000.
CleanStamps(k) ==
    { p \in (1..31) \X (0..23) :
        IF "date" \in HeaderNames
        THEN \/ p[2] = 0 /\ Field(k, "date") = IsoDate(2024, 1, p[1])
             \/ \E sep \in { " ", "T" } :
                   Field(k, "date") = IsoDate(2024, 1, p[1]) \o TimePart(sep, p[2])
        ELSE /\ Field(k, "dtyyyymmdd") = << D(20240100 + p[1]) >>
             /\ Field(k, "time") = << D(p[2] * 10000) >> }

VolumeName == IF "volume" \in HeaderNames THEN "volume" ELSE "vol"

\* A cell that is one plain unsigned numeral.
IsNumeral(cell) == Len(cell) = 1 /\ cell[1].k = "d"

\* Data line k is well-formed: every header column has a cell, the timestamp
\* is an instant of the month, the prices are positive numerals and the
\* volume a numeral.
WellFormedLine(k) ==
    /\ Len(csv_rows[k]) = Len(csv_header)
    /\ CleanStamps(k) # {}
    /\ \A name \in { "open", "high", "low", "close" } :
          IsNumeral(Field(k, name)) /\ Field(k, name)[1].n > 0
    /\ IsNumeral(Field(k, VolumeName))

CleanInstant(k) ==
    LET p == CHOOSE p \in CleanStamps(k) : TRUE IN InstantOf(p[1], p[2])

\* The candle a well-formed line states.
CleanCandle(k) ==
    Candle(CleanInstant(k), Field(k, "open")[1].n, Field(k, "high")[1].n,
           Field(k, "low")[1].n, Field(k, "close")[1].n, Field(k, VolumeName)[1].n)

\* The file has data lines, each well-formed and later than the one before.
CleanFile ==
    /\ csv_rows # <<>>
    /\ \A k \in 1..Len(csv_rows) : WellFormedLine(k)
    /\ \A k \in 2..Len(csv_rows) : CleanInstant(k - 1) < CleanInstant(k)

\* C16: for a file whose data lines are all well-formed with strictly
\* ascending timestamps, the import succeeds and returns the lines in order,
\* field for field, with nothing dropped and no warning or error.
C16_Identity ==
    ReturnedAfterRows /\ CleanFile =>
        imp = [success |-> TRUE, partial_success |-> FALSE, dropped_rows |-> 0,
               candles |-> [k \in 1..Len(csv_rows) |-> CleanCandle(k)],
               warnings |-> <<>>, errors |-> <<>>]

\* The same for the files whose timestamps have no T before the time.
C16_IdentityWithoutT ==
    /\ ReturnedAfterRows /\ CleanFile
    /\ \A k \in 1..Len(csv_rows) : \A j \in 1..Len(csv_rows[k]) : C("T") \notin
          { csv_rows[k][j][m] : m \in 1..Len(csv_rows[k][j]) }
    => imp = [success |-> TRUE, partial_success |-> FALSE, dropped_rows |-> 0,
              candles |-> [k \in 1..Len(csv_rows) |-> CleanCandle(k)],
              warnings |-> <<>>, errors |-> <<>>]

\* ---------------------------------------------------------------------------
\* Claims about downsample_bucket_min_max, under DownsampleSpec.

Downsampled == dpc = "done"

\* C17: for pixel_width > 0 and 0 < points.length <= display_cap the result
\* has one record per point, in input order, each with min_ts = max_ts = the
\* point's ts and min_value = max_value = the point's value.
C17_PassThrough ==
    Downsampled /\ pixel_width > 0 /\ Len(points) > 0 /\ Len(points) <= display_cap =>
        /\ Len(ds_out) = Len(points)
        /\ \A k \in 1..Len(points) :
              /\ ds_out[k].min_ts = points[k].ts /\ ds_out[k].max_ts = points[k].ts
              /\ ds_out[k].min_value = points[k].value
              /\ ds_out[k].max_value = points[k].value

\* A series as long as the cap, with differing values, passed through.
C17_Witness ==
    /\ Downsampled /\ pixel_width > 0
    /\ Len(points) = display_cap /\ Len(points) >= 3
    /\ points[1].value # points[2].value
    /\ Len(ds_out) = Len(points)

\* The indices of bucket b of bc buckets over n points.
BucketIndices(b, n, bc) ==
    { idx \in 0..(n - 1) : (b * n) \div bc <= idx /\ idx < ((b + 1) * n) \div bc }

\* The first index of a bucket attaining the bucket's least value, and the
\* first attaining its greatest.
FirstMin(S) ==
    CHOOSE m \in S :
        /\ \A j \in S : At(points, m).value <= At(points, j).value
        /\ \A j \in S : At(points, j).value = At(points, m).value => m <= j
FirstMax(S) ==
    CHOOSE m \in S :
        /\ \A j \in S : At(points, m).value >= At(points, j).value
        /\ \A j \in S : At(points, j).value = At(points, m).value => m <= j

\* C18: for more points than display_cap, the indices are partitioned into
\* bucket_count = max(1, min(pixel_width, display_cap / 2)) contiguous
\* buckets [floor(b*N/bucket_count), floor((b+1)*N/bucket_count)) covering
\* every index exactly once, and the record of each bucket holds the ts and
\* value of the first point attaining the bucket's minimum and of the first
\* point attaining its maximum.
C18_Reduction ==
    Downsampled /\ pixel_width > 0 /\ Len(points) > display_cap =>
        LET n == Len(points)
            half == display_cap \div 2
            narrow == IF pixel_width < half THEN pixel_width ELSE half
            bc == IF narrow < 1 THEN 1 ELSE narrow
        IN  /\ \A idx \in 0..(n - 1) :
                  Cardinality({ b \in 0..(bc - 1) : idx \in BucketIndices(b, n, bc) }) = 1
            /\ Len(ds_out) = bc
            /\ \A b \in 0..(bc - 1) :
                  /\ BucketIndices(b, n, bc) # {}
                  /\ ds_out[b + 1] =
                        BucketMinMax(At(points, FirstMin(BucketIndices(b, n, bc))).ts,
                                     At(points, FirstMin(BucketIndices(b, n, bc))).value,
                                     At(points, FirstMax(BucketIndices(b, n, bc))).ts,
                                     At(points, FirstMax(BucketIndices(b, n, bc))).value)

\* Seven points in three buckets of sizes 2, 2 and 3, the last with its
\* minimum attained twice.
C18_Witness ==
    /\ Downsampled
    /\ Len(points) = 7 /\ display_cap = 6 /\ pixel_width = 4
    /\ Len(ds_out) = 3
    /\ points[5].value = 1 /\ points[6].value = 3 /\ points[7].value = 1
    /\ ds_out[3].min_ts = points[5].ts /\ ds_out[3].max_ts = points[6].ts

\* The values of the input points, and those of the emitted fields.
InputValues == { points[k].value : k \in 1..Len(points) }
EmittedMin == { ds_out[k].min_value : k \in 1..Len(ds_out) }
EmittedMax == { ds_out[k].max_value : k \in 1..Len(ds_out) }

\* C37: for more points than display_cap and pixel_width > 0 the result has
\* exactly max(1, min(pixel_width, display_cap / 2)) records, which is at
\* most display_cap rendered points when display_cap >= 2, and the least
\* and the greatest value of the input are among the emitted min_value and
\* max_value fields.
C37_SizeAndFidelity ==
    Downsampled /\ pixel_width > 0 /\ Len(points) > display_cap =>
        /\ \/ Len(ds_out) = pixel_width /\ pixel_width <= display_cap \div 2
           \/ Len(ds_out) = display_cap \div 2 /\ 1 <= display_cap \div 2
                                               /\ display_cap \div 2 <= pixel_width
           \/ Len(ds_out) = 1 /\ display_cap \div 2 < 1
        /\ display_cap >= 2 => 2 * Len(ds_out) <= display_cap
        /\ \E v \in EmittedMin : \A w \in InputValues : v <= w
        /\ \E v \in EmittedMax : \A w \in InputValues : v >= w

\* Three buckets, the least value of the input in the first and the
\* greatest in the last, neither being the other extreme of its bucket.
C37_Witness ==
    /\ Downsampled /\ pixel_width > 0 /\ Len(points) > display_cap
    /\ Len(ds_out) = 3
    /\ ds_out[1].min_value = 1 /\ ds_out[1].max_value = 2
    /\ ds_out[2].min_value = 2 /\ ds_out[2].max_value = 2
    /\ ds_out[3].min_value = 2 /\ ds_out[3].max_value = 3

\* The call of display_points has returned.
Shown == dpc = "shown"

\* C31: for points sorted by timestamp, the points display_points builds
\* from the buckets, each bucket giving its earlier extreme first, have
\* non-decreasing x across the whole output, within and across buckets.
C31_RenderOrdering ==
    Shown =>
        /\ Len(points) > display_cap =>
              Len(dp_out) = 2 * Len(downsample_bucket_min_max(points, Max(1, pixel_width),
                                                              display_cap))
        /\ \A k \in 1..(Len(dp_out) - 1) : dp_out[k].x <= dp_out[k + 1].x

\* Two buckets or more, one of them with its maximum before its minimum.
C31_Witness ==
    /\ Shown /\ Len(points) > display_cap
    /\ Len(dp_out) >= 4
    /\ \E b \in 1..Len(downsample_bucket_min_max(points, Max(1, pixel_width), display_cap)) :
          LET bucket == downsample_bucket_min_max(points, Max(1, pixel_width), display_cap)[b]
          IN  /\ bucket.max_ts < bucket.min_ts
              /\ dp_out[2 * b - 1].y = bucket.max_value
              /\ dp_out[2 * b].y = bucket.min_value

\* ---------------------------------------------------------------------------
\* Claims about parse_timestamp_utc, under TimeSpec.

ParsedTimestamp == tpc = "done"

\* The instant of a UTC calendar date and time of day.
UtcInstant(y, m, d, h, mi, s) == DaysFromCivil(y, m, d) * 86400 + h * 3600 + mi * 60 + s

InRangeDate(m, d) == m \in 1..12 /\ d \in 1..31
InRangeTime(t) == t[1] \in 0..23 /\ t[2] \in 0..59 /\ t[3] \in 0..60

\* C19: with the ISO format, a date alone parses to its midnight UTC, and a
\* date followed by a time part after a blank or after a T parses to the
\* instant with that hour, minute and second.
C19_IsoTimeCarried ==
    ParsedTimestamp /\ ts_fmt = "Iso" =>
        \A m \in MonthSet, d \in DaySet :
            InRangeDate(m, d) =>
                /\ ts_text = Joined(2024, "-", m, d) =>
                      ts_out = [ok |-> TRUE, ts |-> UtcInstant(2024, m, d, 0, 0, 0)]
                /\ \A sep \in { " ", "T" }, t \in TimeSet :
                      InRangeTime(t) /\ ts_text = Joined(2024, "-", m, d)
                                                    \o TimeOfDay(sep, t[1], t[2], t[3]) =>
                          ts_out = [ok |-> TRUE,
                                    ts |-> UtcInstant(2024, m, d, t[1], t[2], t[3])]

\* The same without the T: a date alone, or a date, a blank and a time.
C19_IsoBlankTimeCarried ==
    ParsedTimestamp /\ ts_fmt = "Iso" =>
        \A m \in MonthSet, d \in DaySet :
            InRangeDate(m, d) =>
                /\ ts_text = Joined(2024, "-", m, d) =>
                      ts_out = [ok |-> TRUE, ts |-> UtcInstant(2024, m, d, 0, 0, 0)]
                /\ \A t \in TimeSet :
                      InRangeTime(t) /\ ts_text = Joined(2024, "-", m, d)
                                                    \o TimeOfDay(" ", t[1], t[2], t[3]) =>
                          ts_out = [ok |-> TRUE,
                                    ts |-> UtcInstant(2024, m, d, t[1], t[2], t[3])]

\* The texts that match a convention completely with every field in range:
\* the date, alone or followed by a full time part.
WellFormedTexts(f) ==
    LET dates == IF f = "Iso"
                 THEN { Joined(2024, "-", m, d) : m \in 1..12, d \in 1..31 }
                 ELSE IF f = "Mdy"
                 THEN { Joined(m, "/", d, 2024) : m \in 1..12, d \in 1..31 }
                 ELSE { Joined(d, "/", m, 2024) : m \in 1..12, d \in 1..31 }
        seps == IF f = "Iso" THEN { " ", "T" } ELSE { " " }
        tails == { <<>> } \cup
                 { TimeOfDay(sep, t[1], t[2], t[3]) :
                     sep \in seps, t \in { u \in TimeSet : InRangeTime(u) } }
    IN  { date \o tail : date \in dates, tail \in tails }

\* C20: parse_timestamp_utc returns no value for every text that has a field
\* out of range or does not match the selected convention completely.
C20_MalformedFails ==
    ParsedTimestamp /\ ts_text \notin WellFormedTexts(ts_fmt) => ~ts_out.ok

\* ---------------------------------------------------------------------------
\* Claims about the timestamp round trip, under RoundTripSpec.

\* The shape YYYY-MM-DDTHH:MM:SSZ.
HasIsoShape(chars) ==
    /\ Len(chars) = 20
    /\ chars[5] = "-" /\ chars[8] = "-" /\ chars[11] = "T"
    /\ chars[14] = ":" /\ chars[17] = ":" /\ chars[20] = "Z"
    /\ \A k \in (1..19) \ { 5, 8, 11, 14, 17 } : IsDigit(chars[k])

DaysInMonth(y, m) ==
    IF m = 2
    THEN (IF y % 4 = 0 /\ (y % 100 /= 0 \/ y % 400 = 0) THEN 29 ELSE 28)
    ELSE IF m \in { 4, 6, 9, 11 } THEN 30 ELSE 31

\* The date-only texts of the days that exist.
ValidDateTexts ==
    { DateText(t[1], t[2], t[3]) :
        t \in { u \in DateYears \X DateMonths \X DateDays :
                  u[3] <= DaysInMonth(u[1], u[2]) } }

MidnightSuffix == << "T", "0", "0", ":", "0", "0", ":", "0", "0", "Z" >>

\* C21: the text written for an epoch second e has the shape
\* YYYY-MM-DDTHH:MM:SSZ and parses back, with the ISO format, to e; and a
\* valid date-only ISO text D parses and formats back to D followed by
\* T00:00:00Z.
C21_RoundTrip ==
    /\ rt_dir = "epoch" /\ rpc \in { "second", "done" } => HasIsoShape(rt_mid)
    /\ rt_dir = "epoch" /\ rpc = "done" => rt_out = [ok |-> TRUE, ts |-> rt_in]
    /\ rt_dir = "text" /\ rpc = "done" /\ rt_in \in ValidDateTexts =>
           rt_out = rt_in \o MidnightSuffix

\* The same, with the instants that parse back restricted to the midnights.
C21_MidnightRoundTrip ==
    /\ rt_dir = "epoch" /\ rpc \in { "second", "done" } => HasIsoShape(rt_mid)
    /\ rt_dir = "epoch" /\ rpc = "done" /\ rt_in % 86400 = 0 =>
           rt_out = [ok |-> TRUE, ts |-> rt_in]
    /\ rt_dir = "text" /\ rpc = "done" /\ rt_in \in ValidDateTexts =>
           rt_out = rt_in \o MidnightSuffix

\* ---------------------------------------------------------------------------
\* Claims about the GUI host, under GuiSpec.

\* C22: at most one backtest computation is in flight: no backtest is started
\* while one started before has not delivered its finished event.
C22_OneBacktestInFlight == Cardinality(backtest_tasks) <= 1

\* ---------------------------------------------------------------------------
\* Claims about the bar loop of run_sma_backtest, under Spec.

\* One iteration of the bar loop is about to run, on the bar of index i.
InBar == pc = "loop" /\ i < N

\* The sum of the closes of the bars of index k-w+1..k.
RECURSIVE RefSum(_, _)
RefSum(k, w) == IF w = 0 THEN 0 ELSE candles[k + 1].c + RefSum(k - 1, w - 1)

\* The simple moving average over w bars at the bar of index k.
RefAvg(k, w) == Rat(RefSum(k, w), w)

\* The crossings at the bar of index k, from the averages at k - 1 and k.
RefCrossUp(k) ==
    /\ RatLe(RefAvg(k - 1, params.fast_window), RefAvg(k - 1, params.slow_window))
    /\ RatLt(RefAvg(k, params.slow_window), RefAvg(k, params.fast_window))
RefCrossDown(k) ==
    /\ RatLe(RefAvg(k - 1, params.slow_window), RefAvg(k - 1, params.fast_window))
    /\ RatLt(RefAvg(k, params.fast_window), RefAvg(k, params.slow_window))

\* C23: on a non-final bar i that has both averages and a previous pair
\* (i >= slow_window), the signal logic leaves pending = Buy iff the fast
\* average crosses up while flat, and leaves pending = Sell (with no risk
\* exit warning, which would mark a Sell of the risk exits) iff it crosses
\* down while long; before bar slow_window it schedules nothing; and a run
\* over at most slow_window + 1 bars returns no trade.
C23_SignalScheduling ==
    /\ [][InBar /\ i + 1 < N =>
            IF i >= params.slow_window
            THEN /\ pending' = "Buy" <=> (RefCrossUp(i) /\ qty' = 0)
                 /\ (pending' = "Sell" /\ warnings' = warnings)
                        <=> (RefCrossDown(i) /\ qty' > 0)
            ELSE /\ pending' /= "Buy"
                 /\ pending' = "Sell" => warnings' /= warnings]_vars
    /\ [](Done /\ ValidRun /\ N <= params.slow_window + 1 => trades = <<>>)

\* A sell scheduled by a crossing down while long, with both risk exits off.
C23_Witness ==
    /\ pc = "loop" /\ pending = "Sell"
    /\ settings.stop_loss_pct = 0 /\ settings.take_profit_pct = 0

\* The warnings one iteration of the bar loop appends.
NewWarnings == SubSeq(warnings', Len(warnings) + 1, Len(warnings'))

Contains(seq, x) == \E k \in 1..Len(seq) : seq[k] = x

\* The signal logic meets a crossing it would act on at the bar of index i:
\* up while flat or down while long, the position being the one left by the
\* fill at this bar's open.
RefSignal ==
    /\ i >= params.slow_window
    /\ \/ RefCrossUp(i) /\ qty' = 0
       \/ RefCrossDown(i) /\ qty' > 0

\* C24: a crossing met on the final bar sets no pending action and appends
\* the warning "Last bar signal discarded"; no bar but the final one appends
\* that warning; and no trade has its buy or its sell scheduled on the final
\* bar.
C24_FinalBarDiscarded ==
    /\ [][InBar =>
            IF i + 1 = N
            THEN /\ pending' = "None"
                 /\ RefSignal => NewWarnings /= <<>> /\ NewWarnings[1] = WarnLastBar
                 /\ ~RefSignal => ~Contains(NewWarnings, WarnLastBar)
            ELSE ~Contains(NewWarnings, WarnLastBar)]_vars
    /\ [](Done => \A k \in 1..Len(trade_sigs) :
                      trade_sigs[k][1] /= N - 1 /\ trade_sigs[k][2] /= N - 1)

\* A run that discarded a crossing down on its final bar: the position was
\* open and is closed by force.
C24_Witness ==
    Done /\ Contains(warnings, WarnLastBar) /\ Contains(warnings, WarnForced)

IsRiskWarning(w) == w /= WarnLastBar

\* The warning a risk exit appends: of the stop-loss or of the take-profit,
\* on a bar with a next one or on the final bar.
RiskWarning(is_stop, has_next) ==
    IF is_stop THEN (IF has_next THEN WarnStop ELSE WarnStopLast)
    ELSE (IF has_next THEN WarnTake ELSE WarnTakeLast)

\* The risk exits of the bar of index i decide on the return ret: with a
\* position open and no pending action set by the signal logic, the
\* stop-loss fires iff stop_loss_pct > 0 and ret <= -stop_loss_pct, otherwise
\* the take-profit fires iff take_profit_pct > 0 and ret >= take_profit_pct;
\* firing appends one warning, and sets pending = Sell unless the bar is the
\* final one.
RiskExitsOn(ret) ==
    LET has_next == i + 1 < N
        by_signal == has_next /\ i >= params.slow_window
                        /\ RefCrossDown(i) /\ qty' > 0
        eligible == qty' > 0 /\ ~by_signal
        stop_due == /\ eligible /\ settings.stop_loss_pct > 0
                    /\ RatLe(ret, Rat(0 - settings.stop_loss_pct, PctDen))
        take_due == /\ eligible /\ ~stop_due /\ settings.take_profit_pct > 0
                    /\ RatLe(Rat(settings.take_profit_pct, PctDen), ret)
        fired == stop_due \/ take_due
    IN  /\ SelectSeq(NewWarnings, IsRiskWarning) =
              (IF fired THEN << RiskWarning(stop_due, has_next) >> ELSE <<>>)
        /\ fired /\ has_next => pending' = "Sell"
        /\ fired /\ ~has_next => pending' = "None"
        /\ eligible /\ ~fired => pending' = "None"

\* The return of the close of the bar of index i over the entry price the
\* position records.
ReturnOnEntryPrice ==
    IF open_entry_price' > 0
    THEN Rat(candles[i + 1].c - open_entry_price', open_entry_price')
    ELSE Zero

\* C25: on the bar of index i, once the signal logic has run, with a position
\* open and no pending action set by it, the stop-loss fires iff
\* stop_loss_pct > 0 and the unrealized return (of the close over the
\* position's entry price) is <= -stop_loss_pct; otherwise the take-profit
\* fires iff take_profit_pct > 0 and the return is >= take_profit_pct.  At
\* most one fires.  Firing on a non-final bar sets pending = Sell and appends
\* one warning; on the final bar it sets no pending action and appends the
\* last-bar warning, and the forced close then exits at the final close.
C25_RiskExits ==
    /\ [][InBar => RiskExitsOn(ReturnOnEntryPrice)]_vars
    /\ [](Done /\ (Contains(warnings, WarnStopLast) \/ Contains(warnings, WarnTakeLast)) =>
            /\ warnings[Len(warnings)] = WarnForced
            /\ trades /= <<>>
            /\ trades[Len(trades)].exit_price = candles[N].c
            /\ trades[Len(trades)].exit_time = candles[N].ts)

\* A run in which a take-profit scheduled an exit that filled, and a run in
\* which a stop-loss fired on the final bar.
C25_Witness ==
    /\ Done /\ Contains(warnings, WarnTake) /\ trades /= <<>>
    /\ ~Contains(warnings, WarnForced)
C25_WitnessLastBar == Done /\ Contains(warnings, WarnStopLast)

\* The bar the open position was entered on.
EntryBar == candles[CHOOSE k \in 1..N : candles[k].ts = open_entry_time']

\* The return of the close of the bar of index i over the close of the entry
\* bar.
ReturnCloseToClose ==
    IF qty' > 0 THEN Rat(candles[i + 1].c - EntryBar.c, EntryBar.c) ELSE Zero

\* C26: the return the risk exits of bar i compare with the thresholds is
\* (close of bar i - close of the entry bar) / close of the entry bar.
C26_CloseToClose == [][InBar => RiskExitsOn(ReturnCloseToClose)]_vars

\* The bar loop has run i iterations of a call that got past the early
\* returns.
InLoop == ValidRun /\ pc \in { "loop", "done" }

\* C27: once i bars are done, with i >= w for w the fast or the slow window,
\* the sliding sum of that window is the sum of the closes of its last w
\* bars, of index i-w..i-1; and a pair of averages is kept for the crossover
\* detection only from the bar on which both windows are full, as the
\* averages of those sums.
C27_RollingSums ==
    InLoop =>
        /\ i >= params.fast_window => fast_sum = RefSum(i - 1, params.fast_window)
        /\ i >= params.slow_window => slow_sum = RefSum(i - 1, params.slow_window)
        /\ prev_valid <=> (i >= params.fast_window /\ i >= params.slow_window)
        /\ prev_valid => /\ prev_fast = RefAvg(i - 1, params.fast_window)
                         /\ prev_slow = RefAvg(i - 1, params.slow_window)

\* Both windows have slid past a close that differs from the newest one.
C27_Witness ==
    /\ InLoop /\ i >= params.slow_window + 2
    /\ candles[1].c /= candles[i].c

\* floor(cash * clamp(position_size_pct, 0, 1) / (open * (1 + commission_pct)))
\* for cash c as Money and a bar open o: the greatest count whose price with
\* commission is within the budget.
RefBuyQty(c, o) ==
    LET psp == Min(Max(settings.position_size_pct, 0), PctDen)
    IN  CHOOSE q \in 0..c :
            /\ q * PctDen * o * (PctDen + settings.commission_pct) <= c * psp
            /\ (q + 1) * PctDen * o * (PctDen + settings.commission_pct) > c * psp

\* The buy of bar i for the quantity q: if q > 0, cash goes down by
\* q * open_i * (1 + commission_pct) and the position records entry time
\* ts_i and entry price open_i; if it is 0, cash and position are unchanged.
\* Either way the buy is not pending after the bar, no trade is recorded by
\* it, and a buy of 0 leaves nothing pending.
BoughtAtOpen(q) ==
    LET bar == candles[i + 1]
    IN  /\ trades' = trades
        /\ pending' /= "Buy"
        /\ IF q > 0
           THEN /\ qty' = q
                /\ cash' = cash - q * bar.o * (PctDen + settings.commission_pct)
                /\ open_entry_time' = bar.ts
                /\ open_entry_price' = bar.o
           ELSE /\ qty' = qty /\ qty' = 0
                /\ cash' = cash
                /\ open_entry_time' = open_entry_time
                /\ open_entry_price' = open_entry_price
                /\ pending' = "None"

\* C28: with pending = Buy at bar i, the quantity bought is
\* floor(cash * clamp(position_size_pct, 0, 1) / (open_i * (1 + commission_pct))),
\* with the cash debit, the entry time and price of a quantity > 0, nothing
\* changed by a quantity of 0, and no buy pending afterwards.
C28_BuyExecution ==
    [][InBar /\ pending = "Buy" => BoughtAtOpen(RefBuyQty(cash, candles[i + 1].o))]_vars

\* The same for the quotients an int holds.
C28_BuyExecutionInRange ==
    [][InBar /\ pending = "Buy" /\ RefBuyQty(cash, candles[i + 1].o) <= MaxInt =>
          BoughtAtOpen(RefBuyQty(cash, candles[i + 1].o))]_vars

\* C29: the bar of index i sets equity[i] to cash + qty * close_i, cash and
\* qty being those left by the fill at the bar's open, and changes no other
\* sample; past the loop only the last sample changes, and only when a
\* position is closed by force, to the cash realized net of the exit
\* commission; and equity[0] is starting_cash.
C29_MarkToMarket ==
    /\ [][InBar =>
            /\ Len(equity') = Len(equity)
            /\ equity'[i + 1] = cash' + Money(qty' * candles[i + 1].c)
            /\ \A k \in 1..Len(equity) : k /= i + 1 => equity'[k] = equity[k]]_vars
    /\ [][AfterLoop =>
            /\ Len(equity') = Len(equity)
            /\ \A k \in 1..(N - 1) : equity'[k] = equity[k]
            /\ equity'[N] =
                  IF qty > 0
                  THEN cash + qty * candles[N].c * (PctDen - settings.commission_pct)
                  ELSE equity[N]]_vars
    /\ [](InLoop => equity[1] = Money(settings.starting_cash))

\* A forced close that pays a commission: the last sample is below the
\* position marked at the final close.
C29_Witness ==
    /\ Done /\ Contains(warnings, WarnForced)
    /\ settings.commission_pct > 0
    /\ equity[N] = cash
    /\ equity[N] < Money(settings.starting_cash)

\* ---------------------------------------------------------------------------
\* Claims about the validation of the data lines, under ImportSpec.

\* The message of the first check the cells of a line fail, in the order
\* field count, timestamp, numeric parse, positive prices (no price is <= 0),
\* non-negative volume (the volume is not < 0); "" when they pass every
\* check.
FirstFailedCheck(cl, fields, fmt) ==
    LET required == IF has_single_timestamp(cl)
                    THEN { cl.timestamp_col, cl.o_col, cl.h_col, cl.l_col, cl.c_col,
                           cl.v_col } \cup
                         (IF has_split_datetime(cl) THEN { cl.dt_col, cl.tm_col } ELSE {})
                    ELSE { cl.dt_col, cl.tm_col, cl.o_col, cl.h_col, cl.l_col, cl.c_col,
                           cl.v_col }
        prices == { cl.o_col, cl.h_col, cl.l_col, cl.c_col }
        parsed == [col \in prices \cup { cl.v_col } |-> parse_double_strict(fields[col])]
    IN  IF \E col \in required : col > Len(fields) THEN MsgMissingFields
        ELSE IF ~RowTimestamp(cl, fields, fmt).ok THEN MsgBadTimestamp
        ELSE IF \E col \in prices \cup { cl.v_col } : ~parsed[col].ok
        THEN MsgBadNumber
        ELSE IF \E col \in prices : FLe(parsed[col].value, 0)
        THEN MsgBadPrice
        ELSE IF FLt(parsed[cl.v_col].value, 0)
        THEN MsgBadVolume
        ELSE ""

\* The issues of the first n data lines: one for each line that is not blank
\* and fails a check, with the message of the first check it fails and its
\* number in the file, the header being line 1.
RECURSIVE RefRowIssues(_, _)
RefRowIssues(cl, n) ==
    IF n = 0 THEN <<>>
    ELSE LET why == IF csv_rows[n] = <<>> THEN ""
                    ELSE FirstFailedCheck(cl, csv_rows[n], date_format)
         IN  IF why = "" THEN RefRowIssues(cl, n - 1)
             ELSE Append(RefRowIssues(cl, n - 1), Issue(n + 1, why))

\* The data lines are being read, or have been.
ReadingRows == ipc \in { "rows", "done" } /\ csv_open /\ csv_header # <<>> /\ ~HeaderLacksColumn

\* The per-row issues of the lines read so far are those of the checks in
\* their order, dropped_rows counts them, and their line numbers increase.
RowsAccounted ==
    /\ row_issues = RefRowIssues(ResolveColumns(csv_header), line_number - 1)
    /\ imp.dropped_rows = Len(row_issues)
    /\ \A k \in 2..Len(row_issues) : row_issues[k - 1].line < row_issues[k].line

\* C30: each data line that is not blank is checked in the order field
\* count, timestamp, numeric parse, positive prices, non-negative volume; a
\* line failing a check is dropped with one issue, that of the first check it
\* fails, at its 1-based line number in the file; dropped_rows is the number
\* of these issues and their line numbers are strictly increasing.
C30_RowValidation == ReadingRows => RowsAccounted

\* A file whose first data line is blank, whose second has a negative price
\* and a negative volume, and whose third lacks a cell and has no date: the
\* issues are those of the prices at line 3 and of the field count at line 4.
C30_Witness ==
    /\ ipc = "done" /\ Len(csv_rows) = 3
    /\ csv_rows[1] = <<>>
    /\ csv_rows[2] = LineOf(csv_header, DayRow(1, 2, 3, 0 - 1, 2, 0 - 1))
    /\ row_issues = << Issue(3, MsgBadPrice), Issue(4, MsgMissingFields) >>
    /\ imp.dropped_rows = 2

\* ---------------------------------------------------------------------------
\* Claims about the state of the position, the ledger and the accounts.

\* C32: at every bar boundary qty >= 0, pending = Buy implies qty = 0 and
\* pending = Sell implies qty > 0; and the bar that follows consumes the
\* pending action before it detects a crossing: a pending sell closes the
\* position and records one trade, a pending buy records none, and what is
\* pending after the bar is not the action that was pending before it.
C32_PendingConsistency ==
    /\ [](InLoop => /\ qty >= 0
                    /\ pending \in { "None", "Buy", "Sell" }
                    /\ pending = "Buy" => qty = 0
                    /\ pending = "Sell" => qty > 0)
    /\ [][InBar => /\ pending = "Sell" => Len(trades') = Len(trades) + 1
                                           /\ open_entry_time' = 0
                   /\ pending = "Buy" => trades' = trades
                   /\ pending /= "None" => pending' /= pending
                   /\ pending' /= "None" => i' < N]_vars

\* Inside the loop, a position bought by a pending buy has been sold by a
\* pending sell of a crossing, and nothing is pending.
C32_Witness ==
    /\ pc = "loop" /\ ValidRun
    /\ Len(trades) = 1 /\ trades[1].qty > 1
    /\ qty = 0 /\ pending = "None"
    /\ warnings = <<>>

\* The position was entered on the final bar.
EnteredOnFinalBar(t) == t.entry_time = candles[N].ts

\* C33: every recorded trade has qty > 0 and entry_time <= exit_time, the
\* two being equal only for the forced close of a position entered on the
\* final bar; the exit of a trade is strictly before the entry of the next,
\* and before the entry of a position still open; a fill of a buy records
\* no trade, every recorded trade closes the whole open position with its
\* entry time and quantity, and the run ends flat, so that there are as many
\* trades as buys filled with a quantity > 0.
C33_TradeLedger ==
    /\ [](InLoop =>
            /\ \A k \in 1..Len(trades) :
                  /\ trades[k].qty > 0
                  /\ trades[k].entry_time <= trades[k].exit_time
                  /\ trades[k].entry_time = trades[k].exit_time =>
                        /\ Done /\ k = Len(trades)
                        /\ trade_sigs[k][2] = Forced
                        /\ EnteredOnFinalBar(trades[k])
            /\ \A k \in 1..(Len(trades) - 1) :
                  trades[k].exit_time < trades[k + 1].entry_time
            /\ qty > 0 /\ trades /= <<>> => trades[Len(trades)].exit_time < open_entry_time
            /\ Done => qty = 0)
    /\ [][InLoop =>
            /\ qty = 0 /\ qty' > 0 => trades' = trades
            /\ qty > 0 => qty' = qty \/ qty' = 0
            /\ qty > 0 /\ qty' = 0 =>
                  /\ Len(trades') = Len(trades) + 1
                  /\ SubSeq(trades', 1, Len(trades)) = trades
                  /\ trades'[Len(trades')].qty = qty
                  /\ trades'[Len(trades')].entry_time = open_entry_time
            /\ trades' /= trades => qty > 0 /\ qty' = 0]_vars

\* A run over with two trades, the second entered on the final bar and
\* closed by force at its close.
C33_Witness ==
    /\ Done /\ ValidRun /\ Len(trades) = 2
    /\ trades[1].entry_time < trades[1].exit_time /\ trade_sigs[1][2] /= Forced
    /\ trades[2].entry_time = trades[2].exit_time /\ trade_sigs[2][2] = Forced

\* The sum of pnl over the first k trades of a ledger.
RECURSIVE SumPnl(_, _)
SumPnl(ts, k) == IF k = 0 THEN 0 ELSE ts[k].pnl + SumPnl(ts, k - 1)

\* What the open position cost, commission included.
OpenCost == IF qty > 0 THEN qty * open_entry_price * (PctDen + settings.commission_pct) ELSE 0

\* C34: in exact arithmetic, metrics.total_pnl of a completed run is the
\* sum of pnl over the recorded trades; at every bar boundary cash is
\* starting_cash plus the pnl of the recorded trades less the cost of the
\* open position with its entry commission, and the run ends flat with the
\* last equity sample equal to cash.
C34_Accounting ==
    /\ Done => metrics.total_pnl = SumPnl(trades, Len(trades))
    /\ InLoop => cash = Money(settings.starting_cash) + SumPnl(trades, Len(trades)) - OpenCost
    /\ Done /\ ValidRun => qty = 0 /\ equity[N] = cash

\* A completed run of two trades at a commission, one winning and one
\* losing, with a total that is not zero.
C34_Witness ==
    /\ Done /\ ValidRun /\ Len(trades) = 2
    /\ settings.commission_pct > 0
    /\ \E k \in 1..2 : trades[k].pnl > 0 /\ trades[3 - k].pnl < 0
    /\ metrics.total_pnl /= 0

\* starting_cash > 0 and commission_pct in [0, 1).
CashAndCommissionInRange ==
    /\ settings.starting_cash > 0
    /\ 0 <= settings.commission_pct /\ settings.commission_pct < PctDen

\* C35: in exact arithmetic, with starting_cash > 0, commission_pct in
\* [0, 1) and any position_size_pct, cash is >= 0 after every bar, a buy
\* taking from cash its cost with commission and no more than cash holds,
\* and every equity sample is >= 0.
C35_NoLeverage ==
    /\ [](InLoop /\ CashAndCommissionInRange =>
            /\ cash >= 0
            /\ \A k \in 1..Len(equity) : equity[k] >= 0)
    /\ [][InBar /\ CashAndCommissionInRange /\ qty = 0 /\ qty' > 0 =>
            /\ cash' = cash - qty' * candles[i + 1].o * (PctDen + settings.commission_pct)
            /\ cash' >= 0 /\ cash' <= cash]_vars

\* A position bought with all the cash, under a position size above 1.
C35_Witness ==
    /\ InLoop /\ CashAndCommissionInRange
    /\ settings.position_size_pct > PctDen
    /\ qty > 0 /\ cash = 0

\* ---------------------------------------------------------------------------
\* Row conservation of import_ohlcv_csv, under ImportSpec.

\* The data lines that are not blank.
NonBlankLines == Cardinality({ k \in 1..Len(csv_rows) : csv_rows[k] # <<>> })

\* The file-level warnings are the unsorted and the duplicate warning: the
\* import warns of duplicates.
DuplicateWarned ==
    \E k \in 1..Len(imp.warnings) :
        imp.warnings[k].line = 0 /\ imp.warnings[k].message # MsgUnsorted

\* The data lines that are neither blank, nor dropped, nor a candle.
Collapsed == NonBlankLines - Len(imp.candles) - imp.dropped_rows

\* C36: for every file with a valid header and a surviving row, the number
\* of data lines that are not blank is candles.length + dropped_rows + the
\* number of duplicates collapsed, which the duplicate warning reports and
\* which is 0 without that warning; blank lines are in none of the three.
C36_RowConservation ==
    Imported =>
        IF DuplicateWarned
        THEN Collapsed > 0 /\ HasWarning(MsgDuplicates(Collapsed))
        ELSE Collapsed = 0

\* Three data lines, one blank and two of one timestamp collapsed into one
\* candle.
C36_Witness ==
    /\ Imported /\ Len(csv_rows) = 3
    /\ \E k \in 1..3 : csv_rows[k] = <<>>
    /\ Len(imp.candles) = 1 /\ imp.dropped_rows = 0 /\ HasWarning(MsgDuplicates(1))

\* ---------------------------------------------------------------------------
\* The export of the GUI host, under GuiSpec.

\* C38: whenever on_export_results writes files, the result it writes was
\* computed from the dataset candles_ holds: the import that candles_ came
\* from is the one whose candles the backtest ran over, and the equity has
\* one sample per candle.
C38_ExportMatchesDataset ==
    exported /= <<>> =>
        /\ exported.result_of = exported.dataset
        /\ exported.equity = exported.candles

\* ---------------------------------------------------------------------------
\* The width of qty, under Spec with int narrowed to MaxInt.

\* C39: for every cash > 0 and open price > 0, the value stored in qty by a
\* pending buy is floor(budget / (open * (1 + commission_pct))), also when
\* that quotient is above the greatest int.
C39_QtyRepresentable ==
    [][InBar /\ pending = "Buy" /\ cash > 0 /\ candles[i + 1].o > 0 =>
          qty' = RefBuyQty(cash, candles[i + 1].o)]_vars

====
